---- MODULE Spec2Model ----
(***************************************************************************)
(* A state-machine model of the VP8L (WebP lossless) decoder of            *)
(* src/loaders/webp/dec/vp8l.cpp.                                          *)
(*                                                                         *)
(* The input stream V is a sequence of units.  One unit is the outcome of  *)
(* one bit-reader access: the value of one VP8LReadBits(n) call, or the    *)
(* rank (in canonical Huffman order) of the symbol one ReadSymbol call     *)
(* decodes.  A table with a single symbol has bits == 0 and its symbol is  *)
(* read without consuming anything.  The bit reader holds the number of    *)
(* units consumed (pos), the number of units the caller supplied (len) and *)
(* the end-of-stream flag; an access past len sets eos and yields zero     *)
(* bits, that is value 0 / the first canonical symbol.                     *)
(***************************************************************************)
EXTENDS Integers, Sequences, FiniteSets, TLC

\* Let([ x \in { e } |-> body ]) is body with x bound to the value of e: the
\* value is computed once, before the body, as a C local is
Let(binding) == binding[CHOOSE v \in DOMAIN binding : TRUE]

VARIABLES
    V,        \* the complete input stream (what the caller will eventually have)
    dec,      \* the VP8LDecoder (with the VP8Io and the output buffer it writes)
    alph,     \* the ALPHDecoder fields this file touches
    api,      \* which entry points the owner of the decoder uses: "image" | "alpha"
    call,     \* the last public call and what it returned
    fn        \* a helper function applied on its own: its name, arguments and result

vars == <<V, dec, alph, api, call, fn>>

----------------------------------------------------------------------------
(* Program constants *)

NUM_ARGB_CACHE_ROWS == 16
SYNC_EVERY_N_ROWS == 8
NUM_CODE_LENGTH_CODES == 19
CODE_TO_PLANE_CODES == 120

\* constants of the lossless format that vp8l.cpp takes from its headers
NUM_LITERAL_CODES == 256
NUM_LENGTH_CODES == 24
NUM_DISTANCE_CODES == 40
HUFFMAN_CODES_PER_META_CODE == 5
NUM_TRANSFORMS == 4
MAX_CACHE_BITS == 11

\* HuffIndex, counted from 1: the htrees of a group are a sequence
GREEN == 1
RED == 2
BLUE == 3
ALPHA == 4
DIST == 5

\* VP8LImageTransformType
PREDICTOR_TRANSFORM == 0
CROSS_COLOR_TRANSFORM == 1
SUBTRACT_GREEN == 2
COLOR_INDEXING_TRANSFORM == 3

kAlphabetSize ==
    << NUM_LITERAL_CODES + NUM_LENGTH_CODES,
       NUM_LITERAL_CODES, NUM_LITERAL_CODES, NUM_LITERAL_CODES,
       NUM_DISTANCE_CODES >>

kLiteralMapRedOnly == << 0, 1, 0, 0, 0 >>

kLiteralMap == << 0, 1, 1, 1, 0 >>

kCodeToPlane ==
    << 24, 7, 23, 25, 40, 6, 39, 41, 22, 26,
       38, 42, 56, 5, 55, 57, 21, 27, 54, 58,
       37, 43, 72, 4, 71, 73, 20, 28, 53, 59,
       70, 74, 36, 44, 88, 69, 75, 52, 60, 3,
       87, 89, 19, 29, 86, 90, 35, 45, 68, 76,
       85, 91, 51, 61, 104, 2, 103, 105, 18, 30,
       102, 106, 34, 46, 84, 92, 67, 77, 101, 107,
       50, 62, 120, 1, 119, 121, 83, 93, 17, 31,
       100, 108, 66, 78, 118, 122, 33, 47, 117, 123,
       49, 63, 99, 109, 82, 94, 0, 116, 124, 65,
       79, 16, 32, 98, 110, 48, 115, 125, 81, 95,
       64, 114, 126, 97, 111, 80, 113, 127, 96, 112 >>

FIXED_TABLE_SIZE == 630 * 3 + 410

kTableSize ==
    << FIXED_TABLE_SIZE + 654, FIXED_TABLE_SIZE + 656, FIXED_TABLE_SIZE + 658,
       FIXED_TABLE_SIZE + 662, FIXED_TABLE_SIZE + 670, FIXED_TABLE_SIZE + 686,
       FIXED_TABLE_SIZE + 718, FIXED_TABLE_SIZE + 782, FIXED_TABLE_SIZE + 912,
       FIXED_TABLE_SIZE + 1168, FIXED_TABLE_SIZE + 1680, FIXED_TABLE_SIZE + 2704 >>

----------------------------------------------------------------------------
(* Small arithmetic helpers *)

Pow2(n) == 2 ^ n

Min(a, b) == IF a < b THEN a ELSE b

Max(a, b) == IF a < b THEN b ELSE a

\* x >> n for x >= 0
Shr(x, n) == x \div Pow2(n)

\* VP8LSubSampleSize(size, bits) = (size + (1 << bits) - 1) >> bits
VP8LSubSampleSize(size, bits) == Shr(size + Pow2(bits) - 1, bits)

\* (col & mask): huffman_mask_ is (1 << bits) - 1, or ~0 (here -1) when not tiled
AndMask(col, mask) == IF mask = -1 THEN col ELSE col % (mask + 1)

----------------------------------------------------------------------------
(* Pixels are <<alpha, red, green, blue>> bytes (a uint32_t ARGB value).    *)

NoPixel == << >>

ZeroPixel == << 0, 0, 0, 0 >>

\* ((uint32_t)alpha << 24) | (red << 16) | (code << 8) | blue
MakeARGB(alpha, red, green, blue) == << alpha % 256, red % 256, green % 256, blue % 256 >>

----------------------------------------------------------------------------
(* VP8LBitReader (utils/bit_reader): pos, len and the eos_ flag.            *)

NewBitReader(size) == [ pos |-> 0, len |-> size, eos |-> FALSE ]

\* VP8LReadBits(br, nbits): the next unit, or 0 with eos_ set past the end.
VP8LReadBits(br, nbits) ==
    IF br.eos \/ br.pos >= br.len
    THEN [ br |-> [ br EXCEPT !.eos = TRUE ], val |-> 0 ]
    ELSE [ br |-> [ br EXCEPT !.pos = @ + 1 ], val |-> V[br.pos + 1] % Pow2(nbits) ]

\* A Huffman table as VP8LBuildHuffmanTable leaves it: the symbols that have a
\* code, in canonical order.  table[0].bits is 0 exactly for a single symbol.
TableBits0(table) == IF Len(table.syms) = 1 THEN 0 ELSE 1

TableValue0(table) == table.syms[1]

\* ReadSymbol(table, br)
ReadSymbol(table, br) ==
    IF TableBits0(table) = 0
    THEN [ br |-> br, val |-> TableValue0(table) ]
    ELSE IF br.eos \/ br.pos >= br.len
         THEN [ br |-> [ br EXCEPT !.eos = TRUE ], val |-> TableValue0(table) ]
         ELSE [ br |-> [ br EXCEPT !.pos = @ + 1 ],
                val |-> table.syms[(V[br.pos + 1] % Len(table.syms)) + 1] ]

\* GetCopyDistance(distance_symbol, br)
GetCopyDistance(distance_symbol, br) ==
    IF distance_symbol < 4
    THEN [ br |-> br, val |-> distance_symbol + 1 ]
    ELSE Let([ extra_bits \in { Shr(distance_symbol - 2, 1) } |->
             Let([ offset \in { (2 + (distance_symbol % 2)) * Pow2(extra_bits) } |->
             Let([ r \in { VP8LReadBits(br, extra_bits) } |->
             [ br |-> r.br, val |-> offset + r.val + 1 ] ]) ]) ])

\* GetCopyLength(length_symbol, br)
GetCopyLength(length_symbol, br) == GetCopyDistance(length_symbol, br)

\* the distance as the table gives it, not brought up to 1
PlaneCodeToDistanceAsCoded(xsize, plane_code) ==
    IF plane_code > CODE_TO_PLANE_CODES
    THEN plane_code - CODE_TO_PLANE_CODES
    ELSE Let([ dist_code \in { kCodeToPlane[plane_code] } |->
             Shr(dist_code, 4) * xsize + 8 - (dist_code % 16) ])

\* PlaneCodeToDistance(xsize, plane_code)
PlaneCodeToDistance(xsize, plane_code) ==
    IF plane_code > CODE_TO_PLANE_CODES
    THEN plane_code - CODE_TO_PLANE_CODES
    ELSE Let([ dist_code \in { kCodeToPlane[plane_code] } |->
             Let([ yoffset \in { Shr(dist_code, 4) } |->
             Let([ xoffset \in { 8 - (dist_code % 16) } |->
             Let([ dist \in { yoffset * xsize + xoffset } |->
             IF dist >= 1 THEN dist ELSE 1 ]) ]) ]) ])

----------------------------------------------------------------------------
(* VP8LColorCache (utils/color_cache): colors_ holds the slots written so   *)
(* far; a slot never written reads as 0 (the array is zero-allocated).      *)

NullColorCache == [ alloc |-> FALSE, hash_bits_ |-> 0, colors_ |-> << >> ]

\* VP8LColorCacheInit on a successful allocation
NewColorCache(hash_bits) == [ alloc |-> TRUE, hash_bits_ |-> hash_bits, colors_ |-> << >> ]

\* (0x1e35a7bd * argb) >> (32 - hash_bits), on 32 bits, byte by byte
HashKey(argb, hash_bits) ==
    Let([ c0 \in { argb[4] } |->
        Let([ c1 \in { argb[3] } |->
        Let([ c2 \in { argb[2] } |->
        Let([ c3 \in { argb[1] } |->
        Let([ col0 \in { c0 * 189 } |->
        Let([ col1 \in { c0 * 167 + c1 * 189 + (col0 \div 256) } |->
        Let([ col2 \in { c0 * 53 + c1 * 167 + c2 * 189 + (col1 \div 256) } |->
        Let([ col3 \in { c0 * 30 + c1 * 53 + c2 * 167 + c3 * 189 + (col2 \div 256) } |->
        Let([ top16 \in { (col3 % 256) * 256 + (col2 % 256) } |->
        Shr(top16, 16 - hash_bits) ]) ]) ]) ]) ]) ]) ]) ]) ])

VP8LColorCacheInsert(cc, argb) ==
    [ cc EXCEPT !.colors_ = (HashKey(argb, cc.hash_bits_) :> argb) @@ cc.colors_ ]

VP8LColorCacheLookup(cc, key) ==
    IF key \in DOMAIN cc.colors_ THEN cc.colors_[key] ELSE ZeroPixel

\* VP8LColorCacheCopy(src, dst): dst's colors become src's
VP8LColorCacheCopy(src, dst) == [ dst EXCEPT !.colors_ = src.colors_ ]

RECURSIVE CacheOf(_, _, _)
\* the cache of hash_bits bits after the pixels at positions [0, n) of data
\* were inserted one after the other
CacheOf(hash_bits, data, n) ==
    IF n <= 0 THEN NewColorCache(hash_bits)
    ELSE VP8LColorCacheInsert(CacheOf(hash_bits, data, n - 1), data[n])

\* while (last_cached < src) VP8LColorCacheInsert(color_cache, *last_cached++)
RECURSIVE InsertRange(_, _, _, _)
InsertRange(cc, data, from, to) ==
    IF from >= to THEN cc
    ELSE InsertRange(VP8LColorCacheInsert(cc, data[from + 1]), data, from + 1, to)

----------------------------------------------------------------------------
(* Back-reference copies.  Positions are pixel indices into the raster;     *)
(* the raster's first pixel is 8-byte aligned, so dst is 8-byte aligned     *)
(* exactly at even positions.                                               *)

\* for (i = 0; i < length; ++i) dst[i] = src[i];   (also memcpy: no overlap)
RECURSIVE CopyForward(_, _, _, _)
CopyForward(data, src, dst, length) ==
    IF length <= 0 THEN data
    ELSE CopyForward([ data EXCEPT ![dst + 1] = data[src + 1] ], src + 1, dst + 1, length - 1)

\* for (i = 0; i < (length >> 1); ++i) ((uint64_t*)dst)[i] = pattern;
RECURSIVE FillPattern(_, _, _, _, _)
FillPattern(data, dst, n, lo, hi) ==
    IF n <= 0 THEN data
    ELSE FillPattern([ data EXCEPT ![dst + 1] = lo, ![dst + 2] = hi ], dst + 2, n - 1, lo, hi)

\* the pattern kept as it is when dst is advanced to the 8-byte boundary
CopySmallPattern32bNoSwap(data, src, dst, length, pattern) ==
    Let([ odd \in { (dst % 2) = 1 } |->
        Let([ d1 \in { IF odd THEN [ data EXCEPT ![dst + 1] = data[src + 1] ] ELSE data } |->
        Let([ dst1 \in { IF odd THEN dst + 1 ELSE dst } |->
        FillPattern(d1, dst1, (IF odd THEN length - 1 ELSE length) \div 2,
                    pattern[1], pattern[2]) ]) ]) ])

\* CopySmallPattern32b(src, dst, length, pattern), pattern = <<low word, high word>>
CopySmallPattern32b(data, src, dst, length, pattern) ==
    Let([ odd \in { (dst % 2) = 1 } |->
        Let([ d1 \in { IF odd THEN [ data EXCEPT ![dst + 1] = data[src + 1] ] ELSE data } |->
        Let([ src1 \in { IF odd THEN src + 1 ELSE src } |->
        Let([ dst1 \in { IF odd THEN dst + 1 ELSE dst } |->
        Let([ pat1 \in { IF odd THEN << pattern[2], pattern[1] >> ELSE pattern } |->
        Let([ len1 \in { IF odd THEN length - 1 ELSE length } |->
        Let([ n \in { len1 \div 2 } |->
        Let([ d2 \in { FillPattern(d1, dst1, n, pat1[1], pat1[2]) } |->
        IF len1 % 2 = 1
        THEN [ d2 EXCEPT ![dst1 + 2 * n + 1] = d2[src1 + 2 * n + 1] ]
        ELSE d2 ]) ]) ]) ]) ]) ]) ]) ])

\* CopyBlock32b(dst, dist, length) with dst = data + pos
CopyBlock32b(data, pos, dist, length) ==
    Let([ src \in { pos - dist } |->
        IF dist <= 2 /\ length >= 4
        THEN Let([ pattern \in { IF dist = 1
                                 THEN << data[src + 1], data[src + 1] >>
                                 ELSE << data[src + 1], data[src + 2] >> } |->
                 CopySmallPattern32b(data, src, pos, length, pattern) ])
        ELSE CopyForward(data, src, pos, length) ])

----------------------------------------------------------------------------
(* VP8LMetadata and VP8LDecoder.  A NULL buffer is the empty sequence.      *)

\* InitMetadata: memset(hdr, 0, sizeof(*hdr))
InitMetadata ==
    [ color_cache_size_ |-> 0,
      color_cache_ |-> NullColorCache,
      saved_color_cache_ |-> NullColorCache,
      huffman_mask_ |-> 0,
      huffman_subsample_bits_ |-> 0,
      huffman_xsize_ |-> 0,
      huffman_image_ |-> << >>,
      num_htree_groups_ |-> 0,
      htree_groups_ |-> << >>,
      huffman_tables_ |-> FALSE ]

\* a ClearMetadata that leaves the pointers it freed in place
ClearMetadataKeepPointers(hdr) == hdr

\* ClearMetadata: every buffer of hdr is freed (FreeMetadata), then InitMetadata
ClearMetadata(hdr) == InitMetadata

\* The heap: live holds the buffers allocated and not yet freed, each under the
\* name of the pointer that holds it; twice records a free of a buffer that is
\* no longer live, lost a pointer overwritten while its buffer was live;
\* made counts, for the buffers VP8LDecodeImage allocates, the allocations made.
NullHeap == [ live |-> {}, twice |-> FALSE, lost |-> FALSE,
             made |-> [ pixels_ |-> 0, rescaler_memory |-> 0, saved_color_cache_ |-> 0 ] ]

\* tvg::free(ptr): nothing when ptr is NULL (held FALSE)
Free(heap, held, name) ==
    IF ~held THEN heap
    ELSE IF name \in heap.live THEN [ heap EXCEPT !.live = @ \ { name } ]
    ELSE [ heap EXCEPT !.twice = TRUE ]

\* to = from (*decoded_data = data, hdr->huffman_tables_ = huffman_tables, ...):
\* the buffer changes hands
Move(heap, from, to) ==
    [ heap EXCEPT !.live = (@ \ { from }) \cup { to }, !.lost = @ \/ (to \in heap.live) ]

\* the frees of ClearMetadata, on the pointers hdr holds
FreeMetadata(heap, hdr) ==
    Free(Free(Free(Free(Free(heap,
        hdr.huffman_image_ # << >>, "huffman_image_"),
        hdr.huffman_tables_, "huffman_tables_"),
        hdr.htree_groups_ # << >>, "htree_groups_"),
        hdr.color_cache_.alloc, "color_cache_"),
        hdr.saved_color_cache_.alloc, "saved_color_cache_")

\* the names of transforms_[i].data_, i counted from 1
TransformData == << "transforms_[0].data_", "transforms_[1].data_",
                   "transforms_[2].data_", "transforms_[3].data_" >>

\* ClearTransform(&dec->transforms_[i]) for i < next_transform_: the frees
RECURSIVE FreeTransforms(_, _, _)
FreeTransforms(heap, transforms, i) ==
    IF i > Len(transforms) THEN heap
    ELSE FreeTransforms(Free(heap, transforms[i].data_ # << >>, TransformData[i]),
                        transforms, i + 1)

\* VP8InitIo / a zeroed VP8Io
NullIo ==
    [ set |-> FALSE, width |-> 0, height |-> 0,
      crop_top |-> 0, crop_bottom |-> 0, crop_left |-> 0, crop_right |-> 0,
      use_scaling |-> FALSE, scaled_height |-> 0,
      mb_y |-> 0, mb_w |-> 0, mb_h |-> 0 ]

\* argb_cache_: the scratch rows behind pixels_ (rows empty: nothing copied yet)
NullCache ==
    [ alloc |-> FALSE, start_row |-> 0, end_row |-> 0, rows |-> << >>, applied |-> << >>,
      steps |-> << >> ]

\* dec->output_: the WebPDecBuffer of the caller (NULL: set FALSE)
NullOutput == [ set |-> FALSE, colorspace |-> "MODE_BGRA" ]

\* the watermarks of the decoder when the current public call started
NoStart == [ status_ |-> "OK", last_pixel_ |-> 0, last_row_ |-> 0, last_out_row_ |-> 0 ]

\* no out-of-range color_cache_bits read so far
NoBadCacheBits == [ hit |-> FALSE, ncodes |-> 0, pos |-> 0, rows |-> 0 ]

\* no transform kind declared twice so far
NoDuplicate == [ hit |-> FALSE, stored |-> 0 ]

NoEos == [ hit |-> FALSE, last_row_ |-> 0, last_out_row_ |-> 0, out_rows |-> << >>, blocks |-> << >> ]

\* the meta-Huffman image of ReadHuffmanCodes: the pixels DecodeImageStream
\* returned, the groups made of them and the number of groups
NoMetaImage == [ read |-> FALSE, pixels |-> << >>, image |-> << >>, num_htree_groups |-> 1 ]

\* the color cache in DecodeImageData: what the loop did last, the state of
\* the cache at each read of a green symbol, the lookups and SaveState calls
\* made, and whether each of them found the cache of the pixels written so far
NoCacheObs == [ prev |-> "entry", reads |-> {}, lookups |-> 0, saves |-> 0, synced |-> TRUE ]

\* the activations of DecodeImageStream in the current public call: how many
\* are active, the most that were active at once, each activation's depth and
\* is_level0, and the depth of each ReadTransform and meta-Huffman image read
NoNesting == [ depth |-> 0, deepest |-> 0, streams |-> {}, reads |-> {} ]

\* VP8LNew: calloc, status_ = OK, state_ = READ_DIM
VP8LNew ==
    [ status_ |-> "OK", state_ |-> "READ_DIM",
      width_ |-> 0, height_ |-> 0,
      br_ |-> NewBitReader(0), saved_br_ |-> NewBitReader(0),
      incremental_ |-> FALSE,
      last_pixel_ |-> 0, saved_last_pixel_ |-> 0,
      last_row_ |-> 0, last_out_row_ |-> 0,
      pixels_ |-> << >>, argb_cache_ |-> NullCache,
      hdr_ |-> InitMetadata,
      next_transform_ |-> 0, transforms_ |-> << >>, transforms_seen_ |-> {},
      rescaler_memory |-> FALSE, rescaled_in |-> 0,
      output_ |-> NullOutput, out_rows |-> << >>,
      io_ |-> NullIo,
      \* observation of the run, not decoder state:
      meta_obs |-> NoMetaImage,  \* the meta-Huffman image ReadHuffmanCodes decoded in the current call
      grp_obs |-> {},         \* the group in use at each read of a green symbol in the current call
      cc_obs |-> NoCacheObs,  \* the color cache as DecodeImageData met it in the current call
      nest |-> NoNesting,     \* the DecodeImageStream activations of the current public call
      heap |-> NullHeap,      \* the buffers this decoder allocated and has not freed
      blocks |-> << >>,       \* <<last_row_, row>> of every row block handed to the output
      allocs |-> 0,           \* allocations attempted in the current public call
      fail_at |-> 0,          \* which of them fails (0: none)
      oom |-> FALSE,          \* an allocation failed in the current public call
      ktable |-> {},          \* the indices kTableSize was read at
      ncodes |-> 0,           \* Huffman codes read in the current public call
      bad_cc |-> NoBadCacheBits, \* ncodes, reader position and rows emitted when an
                              \* out-of-range color_cache_bits was read
      start |-> NoStart,      \* the watermarks when the current public call started
      dup |-> NoDuplicate,    \* a transform kind met a second time, and the transforms
                              \* stored when it was met
      eos_seen |-> NoEos,     \* the watermarks at the moment eos stopped the pixel loop
      backrefs |-> << >> ]    \* every back-reference decoded in the current public call

\* malloc/calloc: the fail_at-th allocation of the call returns NULL
Alloc(d) ==
    Let([ n \in { d.allocs + 1 } |->
        [ d |-> [ d EXCEPT !.allocs = n, !.oom = @ \/ (n = d.fail_at) ],
          ok |-> n # d.fail_at ] ])

\* ptr = tvg::malloc(...) / tvg::calloc(...): the buffer, when there is one, is
\* live under the name of ptr
Malloc(d, name) ==
    Let([ a \in { Alloc(d) } |->
        [ d |-> IF a.ok
                THEN [ a.d EXCEPT !.heap.live = @ \cup { name },
                                  !.heap.lost = @ \/ (name \in d.heap.live),
                                  !.heap.made = IF name \in DOMAIN @
                                                THEN [ @ EXCEPT ![name] = @ + 1 ] ELSE @ ]
                ELSE a.d,
          ok |-> a.ok ] ])

----------------------------------------------------------------------------
(* GetMetaIndex / GetHtreeGroupForPos: the index (0-based) of the group     *)

\* a lookup that reads the first tile whatever the position
GetMetaIndexFirstTile(image, xsize, bits, x, y) ==
    IF bits = 0 THEN 0 ELSE image[1]

GetMetaIndex(image, xsize, bits, x, y) ==
    IF bits = 0 THEN 0
    ELSE image[xsize * Shr(y, bits) + Shr(x, bits) + 1]

GetHtreeGroupForPos(hdr, x, y) ==
    GetMetaIndex(hdr.huffman_image_, hdr.huffman_xsize_, hdr.huffman_subsample_bits_, x, y)

----------------------------------------------------------------------------
(* Row processing *)

\* rows [first, first + n) of a raster of the given width
RowsOf(data, width, first, n) ==
    [ k \in 1..(width * n) |-> data[width * first + k] ]

\* ApplyInverseTransforms(dec, num_rows, rows): the scratch cache gets a copy of
\* the rows, then transforms next_transform_-1 .. 0 are applied to it in place.
\* VP8LInverseTransform is dsp code: the cache records which kinds ran, in order.
RECURSIVE InverseOrder(_, _)
InverseOrder(transforms, n) ==
    IF n <= 0 THEN << >>
    ELSE << transforms[n].type_ >> \o InverseOrder(transforms, n - 1)

\* the transforms taken from index 0 upwards
InverseStepsForward(transforms, n, rows_in) ==
    [ k \in 1..n |-> [ n |-> k - 1, type_ |-> transforms[k].type_,
                       rows_in |-> IF k = 1 THEN rows_in ELSE "argb_cache_",
                       rows_out |-> "argb_cache_" ] ]

\* while (n-- > 0) { VP8LInverseTransform(&dec->transforms_[n], start_row, end_row,
\*                                        rows_in, rows_out); rows_in = rows_out; }
\* the calls made: the index of the transform, its kind, what it reads and writes
RECURSIVE InverseSteps(_, _, _)
InverseSteps(transforms, n, rows_in) ==
    IF n <= 0 THEN << >>
    ELSE << [ n |-> n - 1, type_ |-> transforms[n].type_, rows_in |-> rows_in,
              rows_out |-> "argb_cache_" ] >>
         \o InverseSteps(transforms, n - 1, "argb_cache_")

ApplyInverseTransforms(d, num_rows, rows) ==
    [ d EXCEPT !.argb_cache_ =
        [ alloc |-> d.argb_cache_.alloc,
          steps |-> InverseSteps(d.transforms_, d.next_transform_, "rows"),
          start_row |-> d.last_row_,
          end_row |-> d.last_row_ + num_rows,
          rows |-> rows,
          applied |-> InverseOrder(d.transforms_, d.next_transform_) ] ]

\* a SetCropWindow that does not cut the block at crop_bottom
SetCropWindowUncut(io, y_start, y_end) ==
    Let([ delta \in { IF y_start < io.crop_top THEN io.crop_top - y_start ELSE 0 } |->
        Let([ y_start1 \in { IF y_start < io.crop_top THEN io.crop_top ELSE y_start } |->
        IF y_start1 >= y_end
        THEN [ ok |-> FALSE, io |-> io, skip |-> delta, left |-> io.crop_left ]
        ELSE [ ok |-> TRUE,
               io |-> [ io EXCEPT !.mb_y = y_start1 - io.crop_top,
                                  !.mb_w = io.crop_right - io.crop_left,
                                  !.mb_h = y_end - y_start1 ],
               skip |-> delta, left |-> io.crop_left ] ]) ])

\* SetCropWindow(io, y_start, y_end, &in_data, stride): the window, mb_y/mb_w/mb_h
\* and the offset (rows, columns) added to in_data
SetCropWindow(io, y_start, y_end) ==
    Let([ y_end1 \in { IF y_end > io.crop_bottom THEN io.crop_bottom ELSE y_end } |->
        Let([ delta \in { IF y_start < io.crop_top THEN io.crop_top - y_start ELSE 0 } |->
        Let([ y_start1 \in { IF y_start < io.crop_top THEN io.crop_top ELSE y_start } |->
        IF y_start1 >= y_end1
        THEN [ ok |-> FALSE, io |-> io, skip |-> delta, left |-> io.crop_left ]
        ELSE [ ok |-> TRUE,
               io |-> [ io EXCEPT !.mb_y = y_start1 - io.crop_top,
                                  !.mb_w = io.crop_right - io.crop_left,
                                  !.mb_h = y_end1 - y_start1 ],
               skip |-> delta, left |-> io.crop_left ] ]) ]) ])

\* one converted output row: row k of the cropped scratch cache (the source row
\* it was made from, the transforms applied and the columns kept)
OutRow(d, crop, k) ==
    Let([ cache \in { d.argb_cache_ } |->
        Let([ r \in { crop.skip + k } |->
        [ src_row |-> cache.start_row + r,
          applied |-> cache.applied,
          left |-> crop.left,
          mb_w |-> crop.io.mb_w,
          pix |-> [ c \in 1..d.width_ |-> cache.rows[d.width_ * r + c] ] ] ]) ])

\* EmitRows / EmitRowsYUVA: mb_h rows written from output row y_pos on
RECURSIVE EmitRows(_, _, _, _, _)
EmitRows(d, crop, out, y_pos, k) ==
    IF k >= crop.io.mb_h THEN out
    ELSE EmitRows(d, crop, ((y_pos + k) :> OutRow(d, crop, k)) @@ out, y_pos, k + 1)

\* EmitRescaledRowsRGBA / EmitRescaledRowsYUVA (utils/rescaler): after n of
\* in_h rows are imported, floor(n * out_h / in_h) rows have been exported.
RescaledRowsOut(d, crop) ==
    Let([ in_h \in { d.io_.crop_bottom - d.io_.crop_top } |->
        Let([ out_h \in { d.io_.scaled_height } |->
        Let([ before \in { (d.rescaled_in * out_h) \div in_h } |->
        Let([ after \in { ((d.rescaled_in + crop.io.mb_h) * out_h) \div in_h } |->
        after - before ]) ]) ]) ])

\* output->colorspace < MODE_YUV
IsRGBMode(colorspace) == colorspace \notin { "MODE_YUV", "MODE_YUVA" }

\* ProcessRows past "if (num_rows <= 0) return": transform, crop, emit, last_row_ = row
ProcessRowBlock(d, row) ==
    Let([ num_rows \in { row - d.last_row_ } |->
        \* ProcessRows:
          Let([ d1 \in { ApplyInverseTransforms(d, num_rows,
                                                RowsOf(d.pixels_, d.width_, d.last_row_, num_rows)) } |->
              Let([ crop \in { SetCropWindow(d1.io_, d1.last_row_, row) } |->
              Let([ d2 \in { IF ~crop.ok THEN d1
                             ELSE IF IsRGBMode(d1.output_.colorspace)
                             THEN IF d1.io_.use_scaling
                                  THEN [ d1 EXCEPT !.io_ = crop.io,
                                                   !.rescaled_in = @ + crop.io.mb_h,
                                                   !.last_out_row_ = @ + RescaledRowsOut(d1, crop) ]
                                  ELSE [ d1 EXCEPT !.io_ = crop.io,
                                                   !.out_rows = EmitRows(d1, crop, @, d1.last_out_row_, 0),
                                                   !.last_out_row_ = @ + crop.io.mb_h ]
                             ELSE IF d1.io_.use_scaling
                                  THEN [ d1 EXCEPT !.io_ = crop.io,
                                                   !.rescaled_in = @ + crop.io.mb_h,
                                                   !.last_out_row_ =
                                                       d1.last_out_row_ + RescaledRowsOut(d1, crop) ]
                                  ELSE [ d1 EXCEPT !.io_ = crop.io,
                                                   !.out_rows = EmitRows(d1, crop, @, d1.last_out_row_, 0),
                                                   !.last_out_row_ = d1.last_out_row_ + crop.io.mb_h ] } |->
              [ d2 EXCEPT !.last_row_ = row,
                          !.blocks = Append(@, << d.last_row_, row >>) ] ]) ]) ]) ])

\* a ProcessRows without the "nothing to be done" test
ProcessRowsUnguarded(d, row) == ProcessRowBlock(d, row)

\* ProcessRows(dec, row)
ProcessRows(d, row) ==
    IF row - d.last_row_ <= 0 THEN d ELSE ProcessRowBlock(d, row)

\* ExtractAlphaRows(dec, row): the green bytes of the transformed rows go to
\* the alpha plane (io->opaque) at rows [last_row_, row)
ExtractAlphaRows(d, row) ==
    Let([ num_rows \in { row - d.last_row_ } |->
        IF num_rows <= 0 THEN d
        ELSE
          Let([ d1 \in { ApplyInverseTransforms(d, num_rows,
                                                RowsOf(d.pixels_, d.width_, d.last_row_, num_rows)) } |->
              Let([ plane \in { [ start_row |-> d.last_row_, end_row |-> row,
                                  applied |-> d1.argb_cache_.applied,
                                  pix |-> [ k \in DOMAIN d1.argb_cache_.rows |->
                                              d1.argb_cache_.rows[k][3] ] ] } |->
              [ d1 EXCEPT !.out_rows = (Len(d.blocks) :> plane) @@ @,
                          !.last_row_ = row,
                          !.last_out_row_ = row,
                          !.blocks = Append(@, << d.last_row_, row >>) ] ]) ]) ])

\* ExtractPalettedAlphaRows(dec, row): ApplyInverseTransformsAlpha on the bytes of
\* rows [last_row_, row), written to the alpha plane
ExtractPalettedAlphaRows(d, row) ==
    Let([ num_rows \in { row - d.last_row_ } |->
        Let([ d1 \in { IF num_rows > 0
                       THEN Let([ plane \in { [ start_row |-> d.last_row_, end_row |-> row,
                                                applied |-> << COLOR_INDEXING_TRANSFORM >>,
                                                pix |-> RowsOf(d.pixels_, d.width_, d.last_row_, num_rows) ] } |->
                                [ d EXCEPT !.out_rows = (Len(d.blocks) :> plane) @@ @,
                                           !.blocks = Append(@, << d.last_row_, row >>) ] ])
                       ELSE d } |->
        [ d1 EXCEPT !.last_row_ = row, !.last_out_row_ = row ] ]) ])

\* process_func(dec, row) with dec->pixels_ == data
CallProcessRows(process_func, d, data, row) ==
    IF process_func = "ProcessRows" THEN ProcessRows([ d EXCEPT !.pixels_ = data ], row)
    ELSE IF process_func = "ExtractAlphaRows"
    THEN ExtractAlphaRows([ d EXCEPT !.pixels_ = data ], row)
    ELSE d

----------------------------------------------------------------------------
(* SaveState / RestoreState *)

\* a SaveState that leaves the color cache out of the snapshot
SaveStateWithoutCache(d, last_pixel) ==
    [ d EXCEPT !.saved_br_ = d.br_,
               !.saved_last_pixel_ = last_pixel ]

SaveState(d, last_pixel) ==
    [ d EXCEPT !.saved_br_ = d.br_,
               !.saved_last_pixel_ = last_pixel,
               !.hdr_.saved_color_cache_ =
                   IF d.hdr_.color_cache_size_ > 0
                   THEN VP8LColorCacheCopy(d.hdr_.color_cache_, @)
                   ELSE @ ]

\* a RestoreState that leaves the color cache as the abandoned pixels made it
RestoreStateStaleCache(d) ==
    [ d EXCEPT !.status_ = "SUSPENDED",
               !.br_ = d.saved_br_,
               !.last_pixel_ = d.saved_last_pixel_ ]

\* a RestoreState that rewinds the reader and the cache but not last_pixel_
RestoreStateKeepPixel(d) ==
    [ d EXCEPT !.status_ = "SUSPENDED",
               !.br_ = d.saved_br_,
               !.hdr_.color_cache_ =
                   IF d.hdr_.color_cache_size_ > 0
                   THEN VP8LColorCacheCopy(d.hdr_.saved_color_cache_, @)
                   ELSE @ ]

RestoreState(d) ==
    [ d EXCEPT !.status_ = "SUSPENDED",
               !.br_ = d.saved_br_,
               !.last_pixel_ = d.saved_last_pixel_,
               !.hdr_.color_cache_ =
                   IF d.hdr_.color_cache_size_ > 0
                   THEN VP8LColorCacheCopy(d.hdr_.saved_color_cache_, @)
                   ELSE @ ]

----------------------------------------------------------------------------
(* DecodeImageData.  The loop state: the decoder, the raster being written, *)
(* src / last_cached as pixel positions, row, col, next_sync_row, the       *)
(* current group and how the loop was left.                                 *)

len_code_limit == NUM_LITERAL_CODES + NUM_LENGTH_CODES

AtCacheRowsEveryRow(row) == TRUE

\* the rows are left to the end of the picture
AtCacheRowsNever(row) == FALSE

\* row % NUM_ARGB_CACHE_ROWS == 0: a full block of cache rows is decoded
AtCacheRows(row) == row % NUM_ARGB_CACHE_ROWS = 0

\* while (col >= width) { col -= width; ++row; if (row % 16 == 0 && process_func) ... }
RECURSIVE WrapRows(_, _, _)
WrapRows(s, width, process_func) ==
    IF s.col < width THEN s
    ELSE Let([ row \in { s.row + 1 } |->
             Let([ d1 \in { IF AtCacheRows(row) /\ process_func # "NULL"
                            THEN CallProcessRows(process_func, s.dec, s.data, row)
                            ELSE s.dec } |->
             WrapRows([ s EXCEPT !.col = @ - width, !.row = row, !.dec = d1 ],
                      width, process_func) ]) ])

\* the pixels written stay out of the color cache
CatchUpCacheNever(s) == s

\* the green symbol is about to be read: how many pixels written are not in
\* the color cache yet, the column, and what the loop did last
ObserveRead(s) ==
    IF s.dec.hdr_.color_cache_size_ > 0
    THEN [ s EXCEPT !.dec.cc_obs.reads =
                        @ \cup { [ behind |-> s.src - s.last_cached, col |-> s.col,
                                   after |-> s.dec.cc_obs.prev ] } ]
    ELSE s

\* the color cache is looked up or saved: is it the cache of the pixels
\* written so far
ObserveSync(s, what) ==
    IF s.dec.hdr_.color_cache_size_ > 0
    THEN [ s EXCEPT !.dec.cc_obs.synced =
                        /\ @
                        /\ s.last_cached = s.src
                        /\ s.dec.hdr_.color_cache_.colors_ =
                              CacheOf(s.dec.hdr_.color_cache_.hash_bits_, s.data, s.src).colors_,
                    !.dec.cc_obs[what] = @ + 1 ]
    ELSE s

\* the group the meta-Huffman image gives the tile that holds (col, row):
\* tiles are squares of side 2^huffman_subsample_bits_, huffman_xsize_ a row
GroupOfTile(hdr, col, row) ==
    IF hdr.huffman_subsample_bits_ = 0 THEN 0
    ELSE Let([ side \in { Pow2(hdr.huffman_subsample_bits_) } |->
             hdr.huffman_image_[hdr.huffman_xsize_ * (row \div side) + (col \div side) + 1] ])

\* a symbol is about to be read with the trees of group g
ObserveGroup(s, path, g) ==
    [ s EXCEPT !.dec.grp_obs =
        @ \cup { [ path |-> path, after |-> s.dec.cc_obs.prev,
                   resumed |-> s.dec.start.status_ = "SUSPENDED",
                   col |-> s.col, row |-> s.row,
                   looked_up |-> AndMask(s.col, s.dec.hdr_.huffman_mask_) = 0,
                   tiled |-> s.dec.hdr_.huffman_subsample_bits_ > 0,
                   used |-> g, assigned |-> GroupOfTile(s.dec.hdr_, s.col, s.row) ] } ]

\* the color cache brought up to src
CatchUpCache(s) ==
    IF s.dec.hdr_.color_cache_size_ > 0
    THEN [ s EXCEPT !.dec.hdr_.color_cache_ = InsertRange(@, s.data, s.last_cached, s.src),
                    !.last_cached = s.src ]
    ELSE s

\* *src = pixel; AdvanceByOne:
AdvanceByOne(s, pixel, width, process_func) ==
    Let([ s1 \in { [ s EXCEPT !.data[s.src + 1] = pixel, !.src = @ + 1, !.col = @ + 1 ] } |->
        IF s1.col >= width
        THEN Let([ row \in { s1.row + 1 } |->
                 Let([ d1 \in { IF AtCacheRows(row) /\ process_func # "NULL"
                                THEN CallProcessRows(process_func, s1.dec, s1.data, row)
                                ELSE s1.dec } |->
                 CatchUpCache([ s1 EXCEPT !.col = 0, !.row = row, !.dec = d1 ]) ]) ])
        ELSE s1 ])

\* the literal branch
DecodeLiteral(s, group, code, width, process_func) ==
    IF group.is_trivial_literal
    THEN AdvanceByOne(s, MakeARGB(group.literal_arb[1], group.literal_arb[2], code,
                                  group.literal_arb[4]),
                      width, process_func)
    ELSE Let([ red \in { ReadSymbol(group.htrees[RED], s.dec.br_) } |->
             Let([ blue \in { ReadSymbol(group.htrees[BLUE], red.br) } |->
             Let([ alpha \in { ReadSymbol(group.htrees[ALPHA], blue.br) } |->
             Let([ s1 \in { [ s EXCEPT !.dec.br_ = alpha.br ] } |->
             IF alpha.br.eos THEN [ s1 EXCEPT !.exit = "break" ]
             ELSE AdvanceByOne(s1, MakeARGB(alpha.val, red.val, code, blue.val),
                               width, process_func) ]) ]) ]) ])

\* src - data < dist || src_end - src < length is a bitstream error
CopyFits32b(src, dist, src_end, length) == ~(src < dist \/ src_end - src < length)

\* the backward-reference branch
DecodeBackwardRef(s, group, code, width, src_end, process_func) ==
    Let([ length_sym \in { code - NUM_LITERAL_CODES } |->
        Let([ len \in { GetCopyLength(length_sym, s.dec.br_) } |->
        Let([ dist_symbol \in { ReadSymbol(group.htrees[DIST], len.br) } |->
        Let([ dist_code \in { GetCopyDistance(dist_symbol.val, dist_symbol.br) } |->
        Let([ dist \in { PlaneCodeToDistance(width, dist_code.val) } |->
        Let([ length \in { len.val } |->
        Let([ s1 \in { [ s EXCEPT !.dec.br_ = dist_code.br ] } |->
        Let([ note \in { [ pos |-> s.src, dist |-> dist, length |-> length, end |-> src_end,
                           eos |-> dist_code.br.eos, path |-> "DecodeImageData" ] } |->
        IF dist_code.br.eos
        THEN [ s1 EXCEPT !.exit = "break",
                         !.dec.backrefs = Append(@, note @@ [ accepted |-> FALSE, wrote |-> 0 ]) ]
        ELSE IF ~CopyFits32b(s.src, dist, src_end, length)
        THEN [ s1 EXCEPT !.exit = "error",
                         !.dec.backrefs = Append(@, note @@ [ accepted |-> FALSE, wrote |-> 0 ]) ]
        ELSE Let([ s2 \in { [ s1 EXCEPT !.data = CopyBlock32b(@, s.src, dist, length),
                                        !.src = @ + length, !.col = @ + length,
                                        !.dec.backrefs =
                                            Append(@, note @@ [ accepted |-> TRUE, wrote |-> length ]) ] } |->
                 Let([ s3 \in { WrapRows(s2, width, process_func) } |->
                 Let([ s4 \in { IF AndMask(s3.col, s3.dec.hdr_.huffman_mask_) # 0
                                THEN [ s3 EXCEPT !.htree_group =
                                         GetHtreeGroupForPos(s3.dec.hdr_, s3.col, s3.row) ]
                                ELSE s3 } |->
                 CatchUpCache(s4) ]) ]) ]) ]) ]) ]) ]) ]) ]) ]) ])

\* the color-cache branch
DecodeCacheRef(s, code, width, process_func) ==
    Let([ key \in { code - len_code_limit } |->
        Let([ s1 \in { ObserveSync(CatchUpCache(s), "lookups") } |->
        AdvanceByOne(s1, VP8LColorCacheLookup(s1.dec.hdr_.color_cache_, key),
                     width, process_func) ]) ])

\* one pass of the body of while (src < src_last)
DecodeImageDataStep(s, width, src_end, process_func) ==
    Let([ s1 \in { ObserveRead(IF s.row >= s.next_sync_row
                               THEN [ ObserveSync(s, "saves") EXCEPT
                                        !.dec = SaveState(@, s.src),
                                        !.next_sync_row = s.row + SYNC_EVERY_N_ROWS ]
                               ELSE s) } |->
        Let([ hdr \in { s1.dec.hdr_ } |->
        Let([ g \in { IF AndMask(s1.col, hdr.huffman_mask_) = 0
                      THEN GetHtreeGroupForPos(hdr, s1.col, s1.row)
                      ELSE s1.htree_group } |->
        Let([ group \in { hdr.htree_groups_[g + 1] } |->
        Let([ green \in { ReadSymbol(group.htrees[GREEN], s1.dec.br_) } |->
        Let([ code \in { green.val } |->
        Let([ s2 \in { [ ObserveGroup(s1, "DecodeImageData", g) EXCEPT
                           !.htree_group = g, !.dec.br_ = green.br ] } |->
        Let([ color_cache_limit \in { len_code_limit + hdr.color_cache_size_ } |->
        IF green.br.eos THEN [ s2 EXCEPT !.exit = "break" ]
        ELSE IF code < NUM_LITERAL_CODES
        THEN DecodeLiteral([ s2 EXCEPT !.dec.cc_obs.prev = "literal" ],
                           group, code, width, process_func)
        ELSE IF code < len_code_limit
        THEN DecodeBackwardRef([ s2 EXCEPT !.dec.cc_obs.prev = "backref" ],
                               group, code, width, src_end, process_func)
        ELSE IF code < color_cache_limit
        THEN DecodeCacheRef([ s2 EXCEPT !.dec.cc_obs.prev = "cache" ],
                            code, width, process_func)
        ELSE [ s2 EXCEPT !.exit = "error" ] ]) ]) ]) ]) ]) ]) ]) ])

RECURSIVE DecodeImageDataLoop(_, _, _, _, _)
DecodeImageDataLoop(s, width, src_end, src_last, process_func) ==
    IF s.src >= src_last \/ s.exit # "run" THEN s
    ELSE DecodeImageDataLoop(DecodeImageDataStep(s, width, src_end, process_func),
                             width, src_end, src_last, process_func)

\* what follows the loop of DecodeImageData when no error was met:
\* suspend, or process the remaining rows, or fail at the end of the stream
LeaveImageData(s, src_end, process_func) ==
    IF s.dec.incremental_ /\ s.dec.br_.eos /\ s.src < src_end
    THEN [ dec |-> RestoreState(s.dec), data |-> s.data, ok |-> TRUE ]
    ELSE IF ~s.dec.br_.eos
    THEN Let([ d2 \in { CallProcessRows(process_func, s.dec, s.data, s.row) } |->
             [ dec |-> [ d2 EXCEPT !.status_ = "OK", !.last_pixel_ = s.src ],
               data |-> s.data, ok |-> TRUE ] ])
    ELSE [ dec |-> [ s.dec EXCEPT !.status_ = "BITSTREAM_ERROR" ], data |-> s.data, ok |-> FALSE ]

\* DecodeImageData(dec, data, width, height, last_row, process_func):
\* the decoder, the raster and the value returned
DecodeImageData(d, data, width, height, last_row, process_func) ==
    Let([ row0 \in { d.last_pixel_ \div width } |->
        Let([ col0 \in { d.last_pixel_ % width } |->
        Let([ src_end \in { width * height } |->
        Let([ src_last \in { width * last_row } |->
        Let([ s0 \in { [ dec |-> [ d EXCEPT !.cc_obs.prev = "entry" ],
                         data |-> data, row |-> row0, col |-> col0,
                         htree_group |-> GetHtreeGroupForPos(d.hdr_, col0, row0),
                         src |-> d.last_pixel_, last_cached |-> d.last_pixel_,
                         next_sync_row |-> IF d.incremental_ THEN row0 ELSE Pow2(24),
                         exit |-> "run" ] } |->
        Let([ s \in { DecodeImageDataLoop(s0, width, src_end, src_last, process_func) } |->
        Let([ d1 \in { [ s.dec EXCEPT !.eos_seen =
                           IF s.dec.br_.eos /\ s.src < src_end
                           THEN [ hit |-> TRUE, last_row_ |-> s.dec.last_row_,
                                  last_out_row_ |-> s.dec.last_out_row_,
                                  out_rows |-> s.dec.out_rows, blocks |-> s.dec.blocks ]
                           ELSE @ ] } |->
        IF s.exit = "error"
        THEN [ dec |-> [ d1 EXCEPT !.status_ = "BITSTREAM_ERROR" ], data |-> s.data, ok |-> FALSE ]
        ELSE LeaveImageData([ s EXCEPT !.dec = d1 ], src_end, process_func) ]) ]) ]) ]) ]) ]) ])

----------------------------------------------------------------------------
(* Huffman code descriptors.  code_lengths is the function from the symbols *)
(* given a non-zero length to that length (all other symbols: 0).           *)

kCodeLengthLiterals == 16
kCodeLengthRepeatCode == 16
kCodeLengthExtraBits == << 2, 3, 7 >>
kCodeLengthRepeatOffsets == << 3, 3, 11 >>
DEFAULT_CODE_LENGTH == 8
kCodeLengthCodeOrder ==
    << 17, 18, 0, 1, 2, 3, 4, 5, 16, 6, 7, 8, 9, 10, 11, 12, 13, 14, 15 >>

\* the symbols of a set in canonical order: by code length, then by value
RECURSIVE CanonicalOrder(_, _)
CanonicalOrder(code_lengths, symbols) ==
    IF symbols = {} THEN << >>
    ELSE Let([ first \in { CHOOSE x \in symbols :
                             \A y \in symbols :
                                 \/ code_lengths[x] < code_lengths[y]
                                 \/ code_lengths[x] = code_lengths[y] /\ x <= y } |->
             << first >> \o CanonicalOrder(code_lengths, symbols \ { first }) ])

RECURSIVE KraftSum(_, _)
KraftSum(code_lengths, symbols) ==
    IF symbols = {} THEN 0
    ELSE Let([ x \in { CHOOSE y \in symbols : TRUE } |->
             Pow2(15 - code_lengths[x]) + KraftSum(code_lengths, symbols \ { x }) ])

\* VP8LBuildHuffmanTable(table, root_bits, code_lengths, code_lengths_size):
\* size 0 for an empty or over-full code, else the table
VP8LBuildHuffmanTable(code_lengths, code_lengths_size) ==
    Let([ symbols \in { { x \in DOMAIN code_lengths : x < code_lengths_size /\ code_lengths[x] > 0 } } |->
        IF symbols = {} \/ KraftSum(code_lengths, symbols) > Pow2(15)
        THEN [ size |-> 0, table |-> [ syms |-> << >> ] ]
        ELSE [ size |-> Cardinality(symbols),
               table |-> [ syms |-> CanonicalOrder(code_lengths, symbols) ] ] ])

\* code_lengths[symbol] = length  (a zero length leaves the symbol without code)
SetLength(code_lengths, symbol, length) ==
    IF length = 0
    THEN [ x \in (DOMAIN code_lengths) \ { symbol } |-> code_lengths[x] ]
    ELSE (symbol :> length) @@ code_lengths

\* a run that stops one symbol early
RepeatLengthOneShort(code_lengths, symbol, repeat, length) ==
    Let([ run \in { symbol..(symbol + repeat - 2) } |->
        IF length = 0
        THEN [ x \in (DOMAIN code_lengths) \ run |-> code_lengths[x] ]
        ELSE [ x \in run |-> length ] @@ code_lengths ])

\* while (repeat-- > 0) code_lengths[symbol++] = length;
RepeatLength(code_lengths, symbol, repeat, length) ==
    Let([ run \in { symbol..(symbol + repeat - 1) } |->
        IF length = 0
        THEN [ x \in (DOMAIN code_lengths) \ run |-> code_lengths[x] ]
        ELSE [ x \in run |-> length ] @@ code_lengths ])

\* one pass of while (symbol < num_symbols); st.ok is FALSE after goto End and
\* st.done is TRUE after the break on max_symbol
ReadCodeLengthsStep(st, table, num_symbols) ==
    IF st.max_symbol = 0 THEN [ st EXCEPT !.done = TRUE ]
    ELSE Let([ p \in { ReadSymbol(table, st.br) } |->
             Let([ code_len \in { p.val } |->
             Let([ st1 \in { [ st EXCEPT !.max_symbol = @ - 1, !.br = p.br ] } |->
             IF code_len < kCodeLengthLiterals
             THEN [ st1 EXCEPT !.code_lengths = SetLength(@, st.symbol, code_len),
                               !.writes = Append(@, [ first |-> st.symbol, count |-> 1 ]),
                               !.symbol = @ + 1,
                               !.prev_code_len = IF code_len # 0 THEN code_len ELSE @ ]
             ELSE Let([ use_prev \in { code_len = kCodeLengthRepeatCode } |->
                      Let([ slot \in { code_len - kCodeLengthLiterals } |->
                      Let([ extra_bits \in { kCodeLengthExtraBits[slot + 1] } |->
                      Let([ repeat_offset \in { kCodeLengthRepeatOffsets[slot + 1] } |->
                      Let([ r \in { VP8LReadBits(p.br, extra_bits) } |->
                      Let([ repeat \in { r.val + repeat_offset } |->
                      IF st.symbol + repeat > num_symbols
                      THEN [ st1 EXCEPT !.br = r.br, !.ok = FALSE ]
                      ELSE [ st1 EXCEPT !.br = r.br,
                                        !.code_lengths =
                                            RepeatLength(@, st.symbol, repeat,
                                                IF use_prev THEN st.prev_code_len ELSE 0),
                                        !.writes = Append(@, [ first |-> st.symbol,
                                                               count |-> repeat ]),
                                        !.symbol = @ + repeat ] ]) ]) ]) ]) ]) ]) ]) ]) ])

\* the loop of ReadHuffmanCodeLengths: at most n passes, taken in order (the
\* first half of them, then the rest)
RECURSIVE ReadCodeLengthsLoop(_, _, _, _)
ReadCodeLengthsLoop(st, table, num_symbols, n) ==
    IF n <= 0 \/ st.symbol >= num_symbols \/ st.done \/ ~st.ok THEN st
    ELSE IF n = 1 THEN ReadCodeLengthsStep(st, table, num_symbols)
    ELSE ReadCodeLengthsLoop(ReadCodeLengthsLoop(st, table, num_symbols, n \div 2),
                             table, num_symbols, n - (n \div 2))

\* ReadHuffmanCodeLengths(dec, code_length_code_lengths, num_symbols, code_lengths)
ReadHuffmanCodeLengths(d, code_length_code_lengths, num_symbols) ==
    LET fail(br, writes) ==
            [ dec |-> [ d EXCEPT !.br_ = br, !.status_ = "BITSTREAM_ERROR" ],
              ok |-> FALSE, code_lengths |-> << >>, writes |-> writes ]
    IN
    Let([ built \in { VP8LBuildHuffmanTable(code_length_code_lengths, NUM_CODE_LENGTH_CODES) } |->
        IF built.size = 0 THEN fail(d.br_, << >>)
        ELSE Let([ use_length \in { VP8LReadBits(d.br_, 1) } |->
                 Let([ nb \in { VP8LReadBits(use_length.br, 3) } |->
                 Let([ length_nbits \in { 2 + 2 * nb.val } |->
                 Let([ ms \in { VP8LReadBits(nb.br, length_nbits) } |->
                 Let([ max_symbol \in { IF use_length.val = 1 THEN 2 + ms.val ELSE num_symbols } |->
                 Let([ br1 \in { IF use_length.val = 1 THEN ms.br ELSE use_length.br } |->
                 IF max_symbol > num_symbols THEN fail(br1, << >>)
                 ELSE Let([ st \in { ReadCodeLengthsLoop(
                                         [ br |-> br1, symbol |-> 0, max_symbol |-> max_symbol,
                                           prev_code_len |-> DEFAULT_CODE_LENGTH,
                                           code_lengths |-> << >>, writes |-> << >>,
                                           ok |-> TRUE, done |-> FALSE ],
                                         built.table, num_symbols, num_symbols) } |->
                          IF ~st.ok THEN fail(st.br, st.writes)
                          ELSE [ dec |-> [ d EXCEPT !.br_ = st.br ], ok |-> TRUE,
                                 code_lengths |-> st.code_lengths, writes |-> st.writes ] ]) ]) ]) ]) ]) ]) ]) ])

\* for (i = 0; i < num_codes; ++i) code_length_code_lengths[kCodeLengthCodeOrder[i]] = ReadBits(3)
RECURSIVE ReadCodeLengthCodeLengths(_, _, _, _)
ReadCodeLengthCodeLengths(br, lengths, i, num_codes) ==
    IF i >= num_codes THEN [ br |-> br, lengths |-> lengths ]
    ELSE Let([ r \in { VP8LReadBits(br, 3) } |->
             ReadCodeLengthCodeLengths(r.br, SetLength(lengths, kCodeLengthCodeOrder[i + 1], r.val),
                                       i + 1, num_codes) ])

\* ReadHuffmanCode(alphabet_size, dec, code_lengths, table): size (0: failure) and table
ReadHuffmanCode(alphabet_size, d) ==
    LET finish(dd, ok, code_lengths) ==
            Let([ built \in { VP8LBuildHuffmanTable(code_lengths, alphabet_size) } |->
                IF ok /\ ~dd.br_.eos /\ built.size # 0
                THEN [ dec |-> dd, size |-> built.size, table |-> built.table ]
                ELSE [ dec |-> [ dd EXCEPT !.status_ = "BITSTREAM_ERROR" ], size |-> 0,
                       table |-> [ syms |-> << >> ] ] ])
    IN
    Let([ simple_code \in { VP8LReadBits(d.br_, 1) } |->
        Let([ d0 \in { [ d EXCEPT !.ncodes = @ + 1 ] } |->
        IF simple_code.val = 1
        THEN Let([ num_symbols \in { VP8LReadBits(simple_code.br, 1) } |->
                 Let([ first_symbol_len_code \in { VP8LReadBits(num_symbols.br, 1) } |->
                 Let([ symbol1 \in { VP8LReadBits(first_symbol_len_code.br,
                                                  IF first_symbol_len_code.val = 0 THEN 1 ELSE 8) } |->
                 Let([ symbol2 \in { VP8LReadBits(symbol1.br, 8) } |->
                 Let([ two \in { num_symbols.val + 1 = 2 } |->
                 Let([ lengths \in { IF two THEN (symbol2.val :> 1) @@ (symbol1.val :> 1)
                                     ELSE (symbol1.val :> 1) } |->
                 finish([ d0 EXCEPT !.br_ = IF two THEN symbol2.br ELSE symbol1.br ],
                        TRUE, lengths) ]) ]) ]) ]) ]) ])
        ELSE Let([ nc \in { VP8LReadBits(simple_code.br, 4) } |->
                 Let([ num_codes \in { nc.val + 4 } |->
                 IF num_codes > NUM_CODE_LENGTH_CODES
                 THEN [ dec |-> [ d0 EXCEPT !.br_ = nc.br, !.status_ = "BITSTREAM_ERROR" ],
                        size |-> 0, table |-> [ syms |-> << >> ] ]
                 ELSE Let([ cl \in { ReadCodeLengthCodeLengths(nc.br, << >>, 0, num_codes) } |->
                          Let([ r \in { ReadHuffmanCodeLengths([ d0 EXCEPT !.br_ = cl.br ], cl.lengths,
                                                               alphabet_size) } |->
                          finish(r.dec, r.ok, r.code_lengths) ]) ]) ]) ]) ]) ])

----------------------------------------------------------------------------
(* Stream decoding: ReadHuffmanCodes, ReadTransform, DecodeImageStream      *)

RECURSIVE DecodeImageStream(_, _, _, _)

\* the five codes of one group: for (j = 0; j < HUFFMAN_CODES_PER_META_CODE; ++j)
RECURSIVE ReadGroupCodes(_, _, _, _, _)
ReadGroupCodes(d, color_cache_bits, j, htrees, is_trivial_literal) ==
    IF j > HUFFMAN_CODES_PER_META_CODE
    THEN [ dec |-> d, ok |-> TRUE,
           group |-> [ htrees |-> htrees,
                       is_trivial_literal |-> is_trivial_literal,
                       literal_arb |->
                           IF is_trivial_literal
                           THEN MakeARGB(TableValue0(htrees[ALPHA]), TableValue0(htrees[RED]),
                                         0, TableValue0(htrees[BLUE]))
                           ELSE ZeroPixel ] ]
    ELSE Let([ alphabet_size \in { kAlphabetSize[j] +
                                   (IF j = GREEN /\ color_cache_bits > 0
                                    THEN Pow2(color_cache_bits) ELSE 0) } |->
             Let([ r \in { ReadHuffmanCode(alphabet_size, d) } |->
             IF r.size = 0
             THEN [ dec |-> r.dec, ok |-> FALSE, group |-> << >> ]
             ELSE ReadGroupCodes(r.dec, color_cache_bits, j + 1, Append(htrees, r.table),
                                 IF is_trivial_literal /\ kLiteralMap[j] = 1
                                 THEN TableBits0(r.table) = 0
                                 ELSE is_trivial_literal) ]) ])

\* for (i = 0; i < num_htree_groups; ++i)
RECURSIVE ReadGroups(_, _, _, _, _)
ReadGroups(d, color_cache_bits, i, num_htree_groups, groups) ==
    IF i >= num_htree_groups THEN [ dec |-> d, ok |-> TRUE, groups |-> groups ]
    ELSE Let([ r \in { ReadGroupCodes(d, color_cache_bits, 1, << >>, TRUE) } |->
             IF ~r.ok THEN [ dec |-> r.dec, ok |-> FALSE, groups |-> << >> ]
             ELSE ReadGroups(r.dec, color_cache_bits, i + 1, num_htree_groups,
                             Append(groups, r.group)) ])

\* the group taken from the alpha and red bytes
GroupOfPixelTopBytes(argb) == argb[1] * 256 + argb[2]

\* const int group = (huffman_image[i] >> 8) & 0xffff
GroupOfPixel(argb) == argb[2] * 256 + argb[3]

RECURSIVE MaxGroup(_, _)
MaxGroup(image, i) ==
    IF i > Len(image) THEN 0 ELSE Max(image[i], MaxGroup(image, i + 1))

MetaImageAlwaysAllowed(allow_recursion) == TRUE

\* if (allow_recursion && VP8LReadBits(br, 1)): the bit is read at level 0 only
MetaImageAllowed(allow_recursion) == allow_recursion

\* ReadHuffmanCodes(dec, xsize, ysize, color_cache_bits, allow_recursion)
ReadHuffmanCodes(d, xsize, ysize, color_cache_bits, allow_recursion) ==
    LET \* Error: the four locals are freed (each may still be NULL)
        Error(dd, code_lengths, image, tables, groups) ==
            [ dec |-> [ dd EXCEPT !.heap = Free(Free(Free(Free(@,
                                                code_lengths, "code_lengths"),
                                                image, "huffman_image"),
                                                tables, "huffman_tables"),
                                                groups, "htree_groups") ],
              ok |-> FALSE ]
    IN
    Let([ d0 \in { [ d EXCEPT !.ktable = @ \cup { color_cache_bits } ] } |->
        Let([ meta \in { IF MetaImageAllowed(allow_recursion) THEN VP8LReadBits(d0.br_, 1)
                         ELSE [ br |-> d0.br_, val |-> 0 ] } |->
        Let([ prec \in { VP8LReadBits(meta.br, 3) } |->
        Let([ huffman_precision \in { prec.val + 2 } |->
        Let([ use_meta \in { meta.val = 1 } |->
        Let([ sub \in { IF use_meta
                        THEN DecodeImageStream(VP8LSubSampleSize(xsize, huffman_precision),
                                               VP8LSubSampleSize(ysize, huffman_precision),
                                               FALSE,
                                               [ d0 EXCEPT !.br_ = prec.br,
                                                           !.nest.reads = @ \cup
                                                               { [ what |-> "meta",
                                                                   depth |-> d0.nest.depth ] } ])
                        ELSE [ dec |-> d0, ok |-> TRUE, data |-> << >> ] } |->
        Let([ huffman_image \in { IF use_meta
                                  THEN [ i \in DOMAIN sub.data |-> GroupOfPixel(sub.data[i]) ]
                                  ELSE << >> } |->
        Let([ num_htree_groups \in { IF use_meta THEN MaxGroup(huffman_image, 1) + 1 ELSE 1 } |->
        Let([ d1 \in { IF use_meta
                       THEN [ sub.dec EXCEPT !.hdr_.huffman_subsample_bits_ = huffman_precision,
                                             !.meta_obs =
                                                 IF sub.ok
                                                 THEN [ read |-> TRUE, pixels |-> sub.data,
                                                        image |-> huffman_image,
                                                        num_htree_groups |-> num_htree_groups ]
                                                 ELSE @,
                                             !.heap = IF sub.ok THEN Move(@, "data", "huffman_image")
                                                      ELSE @ ]
                       ELSE [ d0 EXCEPT !.br_ = meta.br ] } |->
        IF use_meta /\ ~sub.ok THEN Error(sub.dec, FALSE, FALSE, FALSE, FALSE)
        ELSE IF d1.br_.eos THEN Error(d1, FALSE, use_meta, FALSE, FALSE)
        ELSE Let([ a1 \in { Malloc(d1, "huffman_tables") } |->
                 Let([ a2 \in { Malloc(a1.d, "htree_groups") } |->
                 Let([ a3 \in { Malloc(a2.d, "code_lengths") } |->
                 IF ~(a1.ok /\ a2.ok /\ a3.ok)
                 THEN Error([ a3.d EXCEPT !.status_ = "OUT_OF_MEMORY" ],
                            a3.ok, use_meta, a1.ok, a2.ok)
                 ELSE Let([ r \in { ReadGroups(a3.d, color_cache_bits, 0, num_htree_groups, << >>) } |->
                          IF ~r.ok THEN Error(r.dec, TRUE, use_meta, TRUE, TRUE)
                          ELSE [ dec |-> [ r.dec EXCEPT
                                             !.heap = Move(Move(IF use_meta
                                                                THEN Move(Free(@, TRUE, "code_lengths"),
                                                                          "huffman_image", "huffman_image_")
                                                                ELSE Free(@, TRUE, "code_lengths"),
                                                                "htree_groups", "htree_groups_"),
                                                           "huffman_tables", "huffman_tables_"),
                                             !.hdr_.huffman_image_ = huffman_image,
                                             !.hdr_.num_htree_groups_ = num_htree_groups,
                                             !.hdr_.htree_groups_ = r.groups,
                                             !.hdr_.huffman_tables_ = TRUE ],
                                 ok |-> TRUE ] ]) ]) ]) ]) ]) ]) ]) ]) ]) ]) ]) ]) ])

\* the limits taken one too low
ColorIndexingBitsLow(num_colors) ==
    IF num_colors >= 16 THEN 0
    ELSE IF num_colors >= 4 THEN 1
    ELSE IF num_colors >= 2 THEN 2
    ELSE 3

\* const int bits = (num_colors > 16) ? 0 : (num_colors > 4) ? 1 : (num_colors > 2) ? 2 : 3
ColorIndexingBits(num_colors) ==
    IF num_colors > 16 THEN 0
    ELSE IF num_colors > 4 THEN 1
    ELSE IF num_colors > 2 THEN 2
    ELSE 3

\* the entry copied without the one before it
AddPixelsNoSum(a, b) == a

\* new_data[i] = (data[i] + new_data[i - 4]) & 0xff, pixel by pixel
AddPixels(a, b) ==
    << (a[1] + b[1]) % 256, (a[2] + b[2]) % 256, (a[3] + b[3]) % 256, (a[4] + b[4]) % 256 >>

\* for (i = 4; i < 4 * num_colors; ++i): the passes for the entries i..num_colors
\* (1-based), in this order, taken as the passes of the lower half of the
\* range followed by those of the upper half
RECURSIVE ExpandedMap(_, _, _, _)
ExpandedMap(data, new_map, i, num_colors) ==
    IF i > num_colors THEN new_map
    ELSE IF i = num_colors
    THEN [ new_map EXCEPT ![i] = AddPixels(data[i], new_map[i - 1]) ]
    ELSE Let([ mid \in { (i + num_colors) \div 2 } |->
             Let([ lower \in { ExpandedMap(data, new_map, i, mid) } |->
             ExpandedMap(data, lower, mid + 1, num_colors) ]) ])

\* ExpandColorMap(num_colors, transform)
ExpandColorMap(d, num_colors, transform) ==
    Let([ final_num_colors \in { Pow2(Shr(8, transform.bits_)) } |->
        Let([ a \in { Malloc(d, "new_color_map") } |->
        Let([ new0 \in { [ i \in 1..final_num_colors |-> IF i = 1 THEN transform.data_[1] ELSE ZeroPixel ] } |->
        IF ~a.ok THEN [ dec |-> a.d, ok |-> FALSE, transform |-> transform ]
        ELSE [ dec |-> a.d, ok |-> TRUE,
               transform |-> [ transform EXCEPT
                                 !.data_ = ExpandedMap(transform.data_, new0, 2, num_colors) ] ] ]) ]) ])

\* a test that never finds the kind among those seen
TransformNeverSeen(d, type) == FALSE

\* dec->transforms_seen_ & (1U << type): each transform can only be present once
TransformSeen(d, type) == type \in d.transforms_seen_

\* ReadTransform(&xsize, &ysize, dec): also the new xsize
ReadTransform(d, xsize, ysize) ==
    Let([ t \in { VP8LReadBits(d.br_, 2) } |->
        Let([ type \in { t.val } |->
        Let([ d0 \in { [ d EXCEPT !.br_ = t.br,
                                  !.nest.reads = @ \cup { [ what |-> "transform",
                                                            depth |-> d.nest.depth ] } ] } |->
        IF TransformSeen(d0, type)
        THEN [ dec |-> [ d0 EXCEPT !.dup = [ hit |-> TRUE, stored |-> d0.next_transform_ ] ],
               ok |-> FALSE, xsize |-> xsize ]
        ELSE
          Let([ transform \in { [ type_ |-> type, bits_ |-> 0, xsize_ |-> xsize, ysize_ |-> ysize,
                                  data_ |-> << >> ] } |->
              Let([ n \in { d0.next_transform_ + 1 } |->
              Let([ d1 \in { [ d0 EXCEPT !.transforms_seen_ = @ \cup { type },
                                         !.next_transform_ = n,
                                         !.transforms_ = Append(SubSeq(@, 1, n - 1), transform) ] } |->
              IF type \in { PREDICTOR_TRANSFORM, CROSS_COLOR_TRANSFORM }
              THEN Let([ b \in { VP8LReadBits(d1.br_, 3) } |->
                       Let([ bits \in { b.val + 2 } |->
                       Let([ sub \in { DecodeImageStream(VP8LSubSampleSize(xsize, bits),
                                                         VP8LSubSampleSize(ysize, bits),
                                                         FALSE, [ d1 EXCEPT !.br_ = b.br ]) } |->
                       [ dec |-> [ sub.dec EXCEPT !.transforms_[n].bits_ = bits,
                                                  !.transforms_[n].data_ = sub.data,
                                                  !.heap = IF sub.ok
                                                           THEN Move(@, "data", TransformData[n])
                                                           ELSE @ ],
                         ok |-> sub.ok, xsize |-> xsize ] ]) ]) ])
              ELSE IF type = COLOR_INDEXING_TRANSFORM
              THEN Let([ c \in { VP8LReadBits(d1.br_, 8) } |->
                       Let([ num_colors \in { c.val + 1 } |->
                       Let([ bits \in { ColorIndexingBits(num_colors) } |->
                       Let([ sub \in { DecodeImageStream(num_colors, 1, FALSE, [ d1 EXCEPT !.br_ = c.br ]) } |->
                       Let([ d2 \in { [ sub.dec EXCEPT !.transforms_[n].bits_ = bits,
                                                       !.transforms_[n].data_ = sub.data,
                                                       !.heap = IF sub.ok
                                                                THEN Move(@, "data", TransformData[n])
                                                                ELSE @ ] } |->
                       IF ~sub.ok
                       THEN [ dec |-> d2, ok |-> FALSE, xsize |-> VP8LSubSampleSize(xsize, bits) ]
                       ELSE Let([ e \in { ExpandColorMap(d2, num_colors, d2.transforms_[n]) } |->
                                \* tvg::free(transform->data_); transform->data_ = new_color_map
                                [ dec |-> [ e.dec EXCEPT !.transforms_[n] = e.transform,
                                                         !.heap = IF e.ok
                                                                  THEN Move(Free(@, TRUE, TransformData[n]),
                                                                            "new_color_map", TransformData[n])
                                                                  ELSE @ ],
                                  ok |-> e.ok, xsize |-> VP8LSubSampleSize(xsize, bits) ] ]) ]) ]) ]) ]) ])
              ELSE [ dec |-> d1, ok |-> TRUE, xsize |-> xsize ] ]) ]) ]) ]) ]) ])

\* while (ok && VP8LReadBits(br, 1)) ok = ReadTransform(&transform_xsize, &transform_ysize, dec)
RECURSIVE ReadTransforms(_, _, _)
ReadTransforms(d, xsize, ysize) ==
    Let([ more \in { VP8LReadBits(d.br_, 1) } |->
        Let([ d0 \in { [ d EXCEPT !.br_ = more.br ] } |->
        IF more.val = 0 THEN [ dec |-> d0, ok |-> TRUE, xsize |-> xsize ]
        ELSE Let([ r \in { ReadTransform(d0, xsize, ysize) } |->
                 IF ~r.ok THEN r ELSE ReadTransforms(r.dec, r.xsize, ysize) ]) ]) ])

\* huffman_xsize_ taken to be the width in pixels
UpdateDecoderPixelWidth(d, width, height) ==
    Let([ num_bits \in { d.hdr_.huffman_subsample_bits_ } |->
        [ d EXCEPT !.width_ = width, !.height_ = height,
                   !.hdr_.huffman_xsize_ = width,
                   !.hdr_.huffman_mask_ = IF num_bits = 0 THEN -1 ELSE Pow2(num_bits) - 1 ] ])

\* UpdateDecoder(dec, width, height)
UpdateDecoder(d, width, height) ==
    Let([ num_bits \in { d.hdr_.huffman_subsample_bits_ } |->
        [ d EXCEPT !.width_ = width, !.height_ = height,
                   !.hdr_.huffman_xsize_ = VP8LSubSampleSize(width, num_bits),
                   !.hdr_.huffman_mask_ = IF num_bits = 0 THEN -1 ELSE Pow2(num_bits) - 1 ] ])

\* a fresh (malloc'ed) raster: nothing written yet
NewRaster(n) == [ i \in 1..n |-> NoPixel ]

\* a range check that forgets the upper limit
ValidCacheBitsNoLimit(color_cache_bits) == color_cache_bits >= 1

\* color_cache_bits < 1 || color_cache_bits > MAX_CACHE_BITS is a bitstream error
ValidCacheBits(color_cache_bits) ==
    color_cache_bits >= 1 /\ color_cache_bits <= MAX_CACHE_BITS

\* a failure that leaves the status as it finds it
HuffmanCodesErrorSilent(d) == d

\* if (!ok) { dec->status_ = VP8_STATUS_BITSTREAM_ERROR; goto End; } after the
\* transforms and ReadHuffmanCodes: whatever failed, and whatever status it set
HuffmanCodesError(d) == [ d EXCEPT !.status_ = "BITSTREAM_ERROR" ]

\* DecodeImageStream is entered
Enter(d, is_level0) ==
    [ d EXCEPT !.nest.depth = @ + 1,
               !.nest.deepest = IF d.nest.depth + 1 > @ THEN d.nest.depth + 1 ELSE @,
               !.nest.streams = @ \cup { [ depth |-> d.nest.depth + 1, is_level0 |-> is_level0 ] } ]

\* DecodeImageStream returns
Leave(d) == [ d EXCEPT !.nest.depth = @ - 1 ]

\* DecodeImageStream(xsize, ysize, is_level0, dec, &decoded_data):
\* the decoder, the value returned and *decoded_data
DecodeImageStream(xsize, ysize, is_level0, d) ==
    LET \* End: on failure
        \* (data is still NULL unless the malloc of the sub-stream pixels was reached)
        failed(dd, data) ==
                      [ dec |-> [ Leave(dd) EXCEPT !.heap = FreeMetadata(Free(@, data, "data"), dd.hdr_),
                                            !.hdr_ = ClearMetadata(@) ],
                        ok |-> FALSE, data |-> << >> ]
        \* End: on success
        done(dd, data) ==
            [ dec |-> [ Leave(dd) EXCEPT !.last_pixel_ = 0,
                                  !.heap = IF is_level0 THEN @ ELSE FreeMetadata(@, dd.hdr_),
                                  !.hdr_ = IF is_level0 THEN @ ELSE ClearMetadata(@) ],
              ok |-> TRUE, data |-> data ]
    IN
        Let([ tr \in { IF is_level0 THEN ReadTransforms(Enter(d, is_level0), xsize, ysize)
                       ELSE [ dec |-> Enter(d, is_level0), ok |-> TRUE, xsize |-> xsize ] } |->
        Let([ transform_xsize \in { tr.xsize } |->
        Let([ transform_ysize \in { ysize } |->
        Let([ cc \in { IF tr.ok THEN VP8LReadBits(tr.dec.br_, 1) ELSE [ br |-> tr.dec.br_, val |-> 0 ] } |->
        Let([ ccb \in { VP8LReadBits(cc.br, 4) } |->
        Let([ has_cc \in { tr.ok /\ cc.val = 1 } |->
        Let([ color_cache_bits \in { IF has_cc THEN ccb.val ELSE 0 } |->
        Let([ d1 \in { [ tr.dec EXCEPT !.br_ = IF has_cc THEN ccb.br ELSE cc.br ] } |->
        IF has_cc /\ ~ValidCacheBits(color_cache_bits)
        THEN failed([ d1 EXCEPT !.status_ = "BITSTREAM_ERROR",
                                !.bad_cc = [ hit |-> TRUE, ncodes |-> d1.ncodes,
                                             pos |-> d1.br_.pos, rows |-> Len(d1.blocks) ] ],
                    FALSE)
        ELSE
          Let([ hc \in { IF tr.ok
                         THEN ReadHuffmanCodes(d1, transform_xsize, transform_ysize,
                                               color_cache_bits, is_level0)
                         ELSE [ dec |-> d1, ok |-> FALSE ] } |->
              IF ~hc.ok THEN failed(HuffmanCodesError(hc.dec), FALSE)
              ELSE
                Let([ a \in { IF color_cache_bits > 0 THEN Malloc(hc.dec, "color_cache_") ELSE [ d |-> hc.dec, ok |-> TRUE ] } |->
                    Let([ d2 \in { [ a.d EXCEPT !.hdr_.color_cache_size_ =
                                                   IF color_cache_bits > 0 THEN Pow2(color_cache_bits) ELSE 0,
                                                !.hdr_.color_cache_ =
                                                   IF color_cache_bits > 0 /\ a.ok
                                                   THEN NewColorCache(color_cache_bits) ELSE @ ] } |->
                    IF ~a.ok THEN failed([ d2 EXCEPT !.status_ = "OUT_OF_MEMORY" ], FALSE)
                    ELSE
                      Let([ d3 \in { UpdateDecoder(d2, transform_xsize, transform_ysize) } |->
                          IF is_level0 THEN done([ d3 EXCEPT !.state_ = "READ_HDR" ], << >>)
                          ELSE
                            Let([ b \in { Malloc(d3, "data") } |->
                                IF ~b.ok THEN failed([ b.d EXCEPT !.status_ = "OUT_OF_MEMORY" ], FALSE)
                                ELSE
                                  Let([ r \in { DecodeImageData(b.d,
                                                    NewRaster(transform_xsize * transform_ysize),
                                                    transform_xsize, transform_ysize,
                                                    transform_ysize, "NULL") } |->
                                      IF r.ok /\ ~r.dec.br_.eos THEN done(r.dec, r.data)
                                      ELSE failed(r.dec, TRUE) ]) ]) ]) ]) ]) ]) ]) ]) ]) ]) ]) ]) ]) ])

----------------------------------------------------------------------------
(* The 8-bit alpha path: CopyBlock8b and DecodeAlphaData.  The raster holds *)
(* one byte per pixel; dst is 4-byte aligned at positions divisible by 4.   *)
(* Little-endian build: a pattern is its four bytes in memory order.        *)

\* Rotate8b(V) = ((V & 0xff) << 24) | (V >> 8)
Rotate8b(pattern) == << pattern[2], pattern[3], pattern[4], pattern[1] >>

\* while ((uintptr_t)dst & 3) { *dst++ = *src++; pattern = Rotate8b(pattern); --length; }
RECURSIVE AlignPattern8b(_)
AlignPattern8b(c) ==
    IF c.dst % 4 = 0 THEN c
    ELSE AlignPattern8b([ c EXCEPT !.data[c.dst + 1] = c.data[c.src + 1],
                                   !.dst = @ + 1, !.src = @ + 1,
                                   !.pattern = Rotate8b(@), !.length = @ - 1 ])

\* for (i = 0; i < (length >> 2); ++i) ((uint32_t*)dst)[i] = pattern;
RECURSIVE FillPattern8b(_, _, _, _)
FillPattern8b(data, dst, n, pattern) ==
    IF n <= 0 THEN data
    ELSE FillPattern8b([ data EXCEPT ![dst + 1] = pattern[1], ![dst + 2] = pattern[2],
                                     ![dst + 3] = pattern[3], ![dst + 4] = pattern[4] ],
                       dst + 4, n - 1, pattern)

\* CopySmallPattern8b(src, dst, length, pattern)
CopySmallPattern8b(data, src, dst, length, pattern) ==
    Let([ c \in { AlignPattern8b([ data |-> data, src |-> src, dst |-> dst, length |-> length,
                                   pattern |-> pattern ]) } |->
        Let([ n \in { IF c.length > 0 THEN c.length \div 4 ELSE 0 } |->
        Let([ d2 \in { FillPattern8b(c.data, c.dst, n, c.pattern) } |->
        CopyForward(d2, c.src + 4 * n, c.dst + 4 * n, c.length - 4 * n) ]) ]) ])

\* CopyBlock8b(dst, dist, length) with dst = data + pos
CopyBlock8b(data, pos, dist, length) ==
    Let([ src \in { pos - dist } |->
        IF length >= 8 /\ dist \in { 1, 2, 4 }
        THEN Let([ pattern \in {
                        IF dist = 1
                        THEN << data[src + 1], data[src + 1], data[src + 1], data[src + 1] >>
                        ELSE IF dist = 2
                        THEN << data[src + 1], data[src + 2], data[src + 1], data[src + 2] >>
                        ELSE << data[src + 1], data[src + 2], data[src + 3], data[src + 4] >> } |->
                 CopySmallPattern8b(data, src, pos, length, pattern) ])
        ELSE CopyForward(data, src, pos, length) ])

\* while (col >= width) { col -= width; ++row; if (row % 16 == 0) ExtractPalettedAlphaRows }
RECURSIVE WrapRowsAlpha(_, _)
WrapRowsAlpha(s, width) ==
    IF s.col < width THEN s
    ELSE Let([ row \in { s.row + 1 } |->
             Let([ d1 \in { IF row % NUM_ARGB_CACHE_ROWS = 0
                            THEN ExtractPalettedAlphaRows([ s.dec EXCEPT !.pixels_ = s.data ], row)
                            ELSE s.dec } |->
             WrapRowsAlpha([ s EXCEPT !.col = @ - width, !.row = row, !.dec = d1 ], width) ]) ])

\* pos >= dist && end - pos >= length, else a bitstream error
CopyFits8b(pos, dist, end, length) == pos >= dist /\ end - pos >= length

\* one pass of the body of while (!br->eos_ && pos < last)
DecodeAlphaDataStep(s, width, end, last) ==
    Let([ hdr \in { s.dec.hdr_ } |->
        Let([ g \in { IF AndMask(s.col, hdr.huffman_mask_) = 0
                      THEN GetHtreeGroupForPos(hdr, s.col, s.row)
                      ELSE s.htree_group } |->
        Let([ group \in { hdr.htree_groups_[g + 1] } |->
        Let([ green \in { ReadSymbol(group.htrees[GREEN], s.dec.br_) } |->
        Let([ code \in { green.val } |->
        Let([ s1 \in { [ ObserveGroup(s, "DecodeAlphaData", g) EXCEPT
                           !.htree_group = g, !.dec.br_ = green.br,
                           !.dec.cc_obs.prev = IF code < NUM_LITERAL_CODES THEN "literal"
                                               ELSE "backref" ] } |->
        IF code < NUM_LITERAL_CODES
        THEN Let([ s2 \in { [ s1 EXCEPT !.data[s.pos + 1] = code, !.pos = @ + 1, !.col = @ + 1 ] } |->
                 IF s2.col >= width
                 THEN Let([ row \in { s2.row + 1 } |->
                          [ s2 EXCEPT !.col = 0, !.row = row,
                                      !.dec = IF row % NUM_ARGB_CACHE_ROWS = 0
                                              THEN ExtractPalettedAlphaRows(
                                                       [ s2.dec EXCEPT !.pixels_ = s2.data ], row)
                                              ELSE @ ] ])
                 ELSE s2 ])
        ELSE IF code < len_code_limit
        THEN Let([ length_sym \in { code - NUM_LITERAL_CODES } |->
                 Let([ len \in { GetCopyLength(length_sym, s1.dec.br_) } |->
                 Let([ dist_symbol \in { ReadSymbol(group.htrees[DIST], len.br) } |->
                 Let([ dist_code \in { GetCopyDistance(dist_symbol.val, dist_symbol.br) } |->
                 Let([ dist \in { PlaneCodeToDistance(width, dist_code.val) } |->
                 Let([ length \in { len.val } |->
                 Let([ s2 \in { [ s1 EXCEPT !.dec.br_ = dist_code.br ] } |->
                 Let([ note \in { [ pos |-> s.pos, dist |-> dist, length |-> length, end |-> end,
                                    eos |-> dist_code.br.eos, path |-> "DecodeAlphaData" ] } |->
                 IF CopyFits8b(s.pos, dist, end, length)
                 THEN Let([ s3 \in { [ s2 EXCEPT !.data = CopyBlock8b(@, s.pos, dist, length),
                                                 !.pos = @ + length, !.col = @ + length,
                                                 !.dec.backrefs = Append(@,
                                                     note @@ [ accepted |-> TRUE, wrote |-> length ]) ] } |->
                          Let([ s4 \in { WrapRowsAlpha(s3, width) } |->
                          IF s4.pos < last /\ AndMask(s4.col, hdr.huffman_mask_) # 0
                          THEN [ s4 EXCEPT !.htree_group =
                                   GetHtreeGroupForPos(hdr, s4.col, s4.row) ]
                          ELSE s4 ]) ])
                 ELSE [ s2 EXCEPT !.exit = "error",
                                  !.dec.backrefs = Append(@,
                                      note @@ [ accepted |-> FALSE, wrote |-> 0 ]) ] ]) ]) ]) ]) ]) ]) ]) ])
        ELSE [ s1 EXCEPT !.exit = "error" ] ]) ]) ]) ]) ]) ])

RECURSIVE DecodeAlphaDataLoop(_, _, _, _)
DecodeAlphaDataLoop(s, width, end, last) ==
    IF s.dec.br_.eos \/ s.pos >= last \/ s.exit # "run" THEN s
    ELSE DecodeAlphaDataLoop(DecodeAlphaDataStep(s, width, end, last), width, end, last)

\* DecodeAlphaData(dec, data, width, height, last_row)
DecodeAlphaData(d, data, width, height, last_row) ==
    Let([ row0 \in { d.last_pixel_ \div width } |->
        Let([ col0 \in { d.last_pixel_ % width } |->
        Let([ end \in { width * height } |->
        Let([ last \in { width * last_row } |->
        Let([ s0 \in { [ dec |-> [ d EXCEPT !.cc_obs.prev = "entry" ],
                         data |-> data, row |-> row0, col |-> col0,
                         htree_group |-> GetHtreeGroupForPos(d.hdr_, col0, row0),
                         pos |-> d.last_pixel_, exit |-> "run" ] } |->
        Let([ s \in { DecodeAlphaDataLoop(s0, width, end, last) } |->
        Let([ ok \in { s.exit # "error" } |->
        \* Process the remaining rows corresponding to last row-block.
        Let([ d1 \in { IF ok THEN ExtractPalettedAlphaRows([ s.dec EXCEPT !.pixels_ = s.data ], s.row)
                       ELSE s.dec } |->
        Let([ d2 \in { [ d1 EXCEPT !.eos_seen =
                           IF d1.br_.eos /\ s.pos < end
                           THEN [ hit |-> TRUE, last_row_ |-> s.dec.last_row_,
                                  last_out_row_ |-> s.dec.last_out_row_,
                                  out_rows |-> s.dec.out_rows, blocks |-> s.dec.blocks ]
                           ELSE @ ] } |->
        IF ~ok \/ (d2.br_.eos /\ s.pos < end)
        THEN [ dec |-> [ d2 EXCEPT !.status_ = IF d2.br_.eos THEN "SUSPENDED"
                                               ELSE "BITSTREAM_ERROR" ],
               data |-> s.data, ok |-> FALSE ]
        ELSE [ dec |-> [ d2 EXCEPT !.last_pixel_ = s.pos ], data |-> s.data, ok |-> TRUE ] ]) ]) ]) ]) ]) ]) ]) ]) ])

----------------------------------------------------------------------------
(* The public entry points.  Each takes the decoder and the inputs of the   *)
(* call and yields the decoder it leaves and the value it returns.          *)

\* the observation fields at the start and at the end of a public call
StartCall(d, fail_at) ==
    [ d EXCEPT !.allocs = 0, !.fail_at = fail_at, !.oom = FALSE, !.ktable = {},
               !.ncodes = 0, !.bad_cc = NoBadCacheBits, !.eos_seen = NoEos,
               !.backrefs = << >>, !.dup = NoDuplicate, !.nest = NoNesting,
               !.cc_obs = NoCacheObs, !.meta_obs = NoMetaImage, !.grp_obs = {},
               !.start = [ status_ |-> d.status_, last_pixel_ |-> d.last_pixel_,
                           last_row_ |-> d.last_row_, last_out_row_ |-> d.last_out_row_ ] ]

EndCall(d) == [ d EXCEPT !.allocs = 0, !.fail_at = 0 ]

\* ReadImageInfo(br, &width, &height, &has_alpha)
ReadImageInfo(br) ==
    Let([ magic \in { VP8LReadBits(br, 8) } |->
        Let([ width \in { VP8LReadBits(magic.br, 14) } |->
        Let([ height \in { VP8LReadBits(width.br, 14) } |->
        Let([ has_alpha \in { VP8LReadBits(height.br, 1) } |->
        Let([ version \in { VP8LReadBits(has_alpha.br, 3) } |->
        IF magic.val # 47
        THEN [ br |-> magic.br, ok |-> FALSE, width |-> 0, height |-> 0 ]
        ELSE [ br |-> version.br, ok |-> version.val = 0 /\ ~version.br.eos,
               width |-> width.val + 1, height |-> height.val + 1 ] ]) ]) ]) ]) ])

\* a test that does not look at the color cache
Is8bOptimizableAnyCache(hdr) ==
    \A i \in 1..hdr.num_htree_groups_ :
        /\ TableBits0(hdr.htree_groups_[i].htrees[RED]) = 0
        /\ TableBits0(hdr.htree_groups_[i].htrees[BLUE]) = 0
        /\ TableBits0(hdr.htree_groups_[i].htrees[ALPHA]) = 0

\* Is8bOptimizable(hdr)
Is8bOptimizable(hdr) ==
    /\ hdr.color_cache_size_ = 0
    /\ \A i \in 1..hdr.num_htree_groups_ :
          /\ TableBits0(hdr.htree_groups_[i].htrees[RED]) = 0
          /\ TableBits0(hdr.htree_groups_[i].htrees[BLUE]) = 0
          /\ TableBits0(hdr.htree_groups_[i].htrees[ALPHA]) = 0

\* AllocateInternalBuffers32b(dec, final_width)
AllocateInternalBuffers32b(d, final_width) ==
    Let([ a \in { Malloc(d, "pixels_") } |->
        IF ~a.ok
        THEN [ dec |-> [ a.d EXCEPT !.pixels_ = << >>, !.argb_cache_ = NullCache,
                                    !.status_ = "OUT_OF_MEMORY" ], ok |-> FALSE ]
        ELSE [ dec |-> [ a.d EXCEPT !.pixels_ = NewRaster(d.width_ * d.height_),
                                    !.argb_cache_ = [ NullCache EXCEPT !.alloc = TRUE ] ],
               ok |-> TRUE ] ])

\* AllocateInternalBuffers8b(dec): one byte per pixel, nothing written yet
AllocateInternalBuffers8b(d) ==
    Let([ a \in { Malloc(d, "pixels_") } |->
        IF ~a.ok
        THEN [ dec |-> [ a.d EXCEPT !.pixels_ = << >>, !.argb_cache_ = NullCache,
                                    !.status_ = "OUT_OF_MEMORY" ], ok |-> FALSE ]
        ELSE [ dec |-> [ a.d EXCEPT !.pixels_ = [ i \in 1..(d.width_ * d.height_) |-> -1 ],
                                    !.argb_cache_ = NullCache ],
               ok |-> TRUE ] ])

\* AllocateAndInitRescaler(dec, io)
AllocateAndInitRescaler(d) ==
    Let([ a \in { Malloc(d, "rescaler_memory") } |->
        IF ~a.ok THEN [ dec |-> [ a.d EXCEPT !.status_ = "OUT_OF_MEMORY" ], ok |-> FALSE ]
        ELSE [ dec |-> [ a.d EXCEPT !.rescaler_memory = TRUE, !.rescaled_in = 0 ], ok |-> TRUE ] ])

\* WebPIoInitFromOptions(options, io, MODE_BGRA) (dec/webp): the crop window
\* and the scaling of the options, checked against the picture
WebPIoInitFromOptions(options, io) ==
    Let([ x \in { IF options.use_cropping THEN options.crop_left ELSE 0 } |->
        Let([ y \in { IF options.use_cropping THEN options.crop_top ELSE 0 } |->
        Let([ w \in { IF options.use_cropping THEN options.crop_width ELSE io.width } |->
        Let([ h \in { IF options.use_cropping THEN options.crop_height ELSE io.height } |->
        IF x < 0 \/ y < 0 \/ w <= 0 \/ h <= 0 \/ x + w > io.width \/ y + h > io.height
        THEN [ ok |-> FALSE, io |-> io ]
        ELSE IF options.use_scaling /\ (options.scaled_width <= 0 \/ options.scaled_height <= 0)
        THEN [ ok |-> FALSE,
               io |-> [ io EXCEPT !.crop_left = x, !.crop_top = y, !.crop_right = x + w,
                                  !.crop_bottom = y + h, !.mb_w = w, !.mb_h = h ] ]
        ELSE [ ok |-> TRUE,
               io |-> [ io EXCEPT !.crop_left = x, !.crop_top = y, !.crop_right = x + w,
                                  !.crop_bottom = y + h, !.mb_w = w, !.mb_h = h,
                                  !.use_scaling = options.use_scaling,
                                  !.scaled_height = IF options.use_scaling
                                                    THEN options.scaled_height ELSE @ ] ] ]) ]) ]) ])

\* VP8LClear(dec)
VP8LClear(d) ==
    [ d EXCEPT !.heap = Free(FreeTransforms(Free(FreeMetadata(@, d.hdr_),
                                                 d.pixels_ # << >>, "pixels_"),
                                            SubSeq(d.transforms_, 1, d.next_transform_), 1),
                             d.rescaler_memory, "rescaler_memory"),
               !.hdr_ = ClearMetadata(@),
               !.pixels_ = << >>,
               !.transforms_ = << >>,
               !.next_transform_ = 0,
               !.transforms_seen_ = {},
               !.rescaler_memory = FALSE,
               !.output_ = NullOutput ]

\* VP8LDelete(dec): VP8LClear, then the decoder itself is freed
VP8LDelete(d) == [ VP8LClear(d) EXCEPT !.heap = Free(@, TRUE, "vp8l_dec_") ]

\* VP8LDecodeHeader(dec, io): io_set FALSE is a NULL io, data_size the bytes given
VP8LDecodeHeader(d, io_set, data_size) ==
    IF ~io_set THEN [ dec |-> [ d EXCEPT !.status_ = "INVALID_PARAM" ], ret |-> 0 ]
    ELSE
      Let([ d0 \in { [ d EXCEPT !.io_.set = TRUE, !.status_ = "OK", !.br_ = NewBitReader(data_size) ] } |->
          Let([ info \in { ReadImageInfo(d0.br_) } |->
          IF ~info.ok
          THEN [ dec |-> VP8LClear([ d0 EXCEPT !.br_ = info.br, !.status_ = "BITSTREAM_ERROR" ]),
                 ret |-> 0 ]
          ELSE
            Let([ d1 \in { [ d0 EXCEPT !.br_ = info.br, !.state_ = "READ_DIM",
                                       !.io_.width = info.width, !.io_.height = info.height ] } |->
                Let([ r \in { DecodeImageStream(info.width, info.height, TRUE, d1) } |->
                IF ~r.ok THEN [ dec |-> VP8LClear(r.dec), ret |-> 0 ]
                ELSE [ dec |-> r.dec, ret |-> 1 ] ]) ]) ]) ])

\* an initialization that every call runs
NeedsInitAlways(state) == TRUE

\* if (dec->state_ != READ_DATA): the initialization is still to be done
NeedsInit(state) == state # "READ_DATA"

\* the initialization of VP8LDecodeImage (dec->state_ != READ_DATA)
InitDecodeImage(d, params) ==
    Let([ d0 \in { [ d EXCEPT !.output_ = [ set |-> TRUE, colorspace |-> params.colorspace ] ] } |->
    Let([ o \in { WebPIoInitFromOptions(params.options, d0.io_) } |->
    Let([ d1 \in { [ d0 EXCEPT !.io_ = o.io ] } |->
    IF ~o.ok THEN [ dec |-> [ d1 EXCEPT !.status_ = "INVALID_PARAM" ], ok |-> FALSE ]
    ELSE
    Let([ b \in { AllocateInternalBuffers32b(d1, d1.io_.width) } |->
    IF ~b.ok THEN b
    ELSE
    Let([ r \in { IF d1.io_.use_scaling THEN AllocateAndInitRescaler(b.dec)
                  ELSE [ dec |-> b.dec, ok |-> TRUE ] } |->
    IF ~r.ok THEN r
    ELSE
    Let([ need_saved \in { /\ r.dec.incremental_
                           /\ r.dec.hdr_.color_cache_size_ > 0
                           /\ ~r.dec.hdr_.saved_color_cache_.alloc } |->
    Let([ c \in { IF need_saved THEN Malloc(r.dec, "saved_color_cache_") ELSE [ d |-> r.dec, ok |-> TRUE ] } |->
    IF ~c.ok THEN [ dec |-> [ c.d EXCEPT !.status_ = "OUT_OF_MEMORY" ], ok |-> FALSE ]
    ELSE [ dec |-> [ c.d EXCEPT !.state_ = "READ_DATA",
                                !.hdr_.saved_color_cache_ =
                                    IF need_saved
                                    THEN NewColorCache(c.d.hdr_.color_cache_.hash_bits_)
                                    ELSE @ ],
           ok |-> TRUE ] ]) ]) ]) ]) ]) ]) ])

\* VP8LDecodeImage(dec); params is io->opaque (output colorspace and options)
VP8LDecodeImage(d, params) ==
    Let([ i \in { IF NeedsInit(d.state_) THEN InitDecodeImage(d, params)
                  ELSE [ dec |-> d, ok |-> TRUE ] } |->
    IF ~i.ok THEN [ dec |-> VP8LClear(i.dec), ret |-> 0 ]
    ELSE
    Let([ r \in { DecodeImageData(i.dec, i.dec.pixels_, i.dec.width_, i.dec.height_,
                                  i.dec.height_, "ProcessRows") } |->
    IF ~r.ok THEN [ dec |-> VP8LClear([ r.dec EXCEPT !.pixels_ = r.data ]), ret |-> 0 ]
    ELSE [ dec |-> [ r.dec EXCEPT !.pixels_ = r.data ], ret |-> 1 ] ]) ])

\* VP8LDecodeAlphaHeader(alph_dec, data, data_size, output): the ALPHDecoder,
\* its VP8LDecoder and the value returned
VP8LDecodeAlphaHeader(a, data_size, fail_at) ==
    Let([ n \in { Malloc(StartCall(VP8LNew, fail_at), "vp8l_dec_") } |->
    IF ~n.ok
    THEN [ alph |-> [ a EXCEPT !.vp8l_dec_ = FALSE ], dec |-> n.d, ret |-> 0 ]
    ELSE
    Let([ d0 \in { [ n.d EXCEPT !.width_ = a.width_, !.height_ = a.height_,
                                !.io_ = [ NullIo EXCEPT !.set = TRUE, !.width = a.width_,
                                                        !.height = a.height_ ],
                                !.status_ = "OK", !.br_ = NewBitReader(data_size) ] } |->
    Let([ r \in { DecodeImageStream(a.width_, a.height_, TRUE, d0) } |->
    IF ~r.ok
    THEN [ alph |-> [ a EXCEPT !.vp8l_dec_ = FALSE ], dec |-> VP8LDelete(r.dec), ret |-> 0 ]
    ELSE
    Let([ use_8b \in { /\ r.dec.next_transform_ = 1
                       /\ r.dec.transforms_[1].type_ = COLOR_INDEXING_TRANSFORM
                       /\ Is8bOptimizable(r.dec.hdr_) } |->
    Let([ b \in { IF use_8b THEN AllocateInternalBuffers8b(r.dec)
                  ELSE AllocateInternalBuffers32b(r.dec, a.width_) } |->
    IF ~b.ok
    THEN [ alph |-> [ a EXCEPT !.vp8l_dec_ = FALSE, !.use_8b_decode = use_8b ],
           dec |-> VP8LDelete(b.dec), ret |-> 0 ]
    ELSE [ alph |-> [ a EXCEPT !.vp8l_dec_ = TRUE, !.use_8b_decode = use_8b ],
           dec |-> b.dec, ret |-> 1 ] ]) ]) ]) ]) ])

\* VP8LDecodeAlphaImageStream(alph_dec, last_row)
VP8LDecodeAlphaImageStream(a, d, last_row) ==
    IF d.last_pixel_ = d.width_ * d.height_ THEN [ dec |-> d, ret |-> 1 ]
    ELSE Let([ r \in { IF a.use_8b_decode
                       THEN DecodeAlphaData(d, d.pixels_, d.width_, d.height_, last_row)
                       ELSE DecodeImageData(d, d.pixels_, d.width_, d.height_, last_row,
                                            "ExtractAlphaRows") } |->
             [ dec |-> [ r.dec EXCEPT !.pixels_ = r.data ], ret |-> IF r.ok THEN 1 ELSE 0 ] ])

----------------------------------------------------------------------------
(* The streams decoded.  A stream is written unit by unit the way the       *)
(* decoder reads it: signature, transforms, color cache, meta codes, the    *)
(* five codes of every group, then the pixel tokens.                        *)

ImgWidth == 2
ImgHeight == 18
\* a picture wider than a tile of the smallest size (4 x 4)
WideWidth == 6
WideHeight == 3
\* a picture one pixel wide and more than two blocks of cache rows high
TallHeight == 34
MaxFailAt == 5
AlphaStep == 6
FeedStep == 5

RECURSIVE Flatten(_)
Flatten(ss) == IF ss = << >> THEN << >> ELSE Head(ss) \o Flatten(Tail(ss))

\* signature, width - 1, height - 1, has_alpha, version
Sig(w, h) == << 47, w - 1, h - 1, 0, 0 >>

\* a simple code of one symbol / of two symbols
SimpleCode1(sym) == << 1, 0, IF sym < 2 THEN 0 ELSE 1, sym >>
SimpleCode2(s1, s2) == << 1, 1, IF s1 < 2 THEN 0 ELSE 1, s1, s2 >>

\* a run of g zero lengths in the code-length code { 0, 2, 17, 18 } (ranks 0..3)
RECURSIVE ZeroRun(_)
ZeroRun(g) ==
    IF g = 0 THEN << >>
    ELSE IF g >= 11 THEN << << 3, Min(g, 138) - 11 >> >> \o ZeroRun(g - Min(g, 138))
    ELSE IF g >= 3 THEN << << 2, g - 3 >> >>
    ELSE << << 0 >> >> \o ZeroRun(g - 1)

\* the code-length tokens giving length 2 to each of the (increasing) symbols
RECURSIVE LengthTokens(_, _)
LengthTokens(symbols, next) ==
    IF symbols = << >> THEN << >>
    ELSE ZeroRun(Head(symbols) - next) \o << << 1 >> >>
         \o LengthTokens(Tail(symbols), Head(symbols) + 1)

\* a normal code: 5 code-length code lengths (for 17, 18, 0, 1, 2), max_symbol
\* given on 4 bits, then the tokens
NormalCode(symbols) ==
    Let([ tokens \in { LengthTokens(symbols, 0) } |->
        << 0, 1, 2, 2, 2, 0, 2, 1, 1, Len(tokens) - 2 >> \o Flatten(tokens) ])

\* the five codes of a group: green, red, blue, alpha, dist
TrivialGroup(green) ==
    SimpleCode1(green) \o SimpleCode1(0) \o SimpleCode1(0) \o SimpleCode1(0) \o SimpleCode1(0)

Lits2Group == SimpleCode2(3, 5) \o SimpleCode1(1) \o SimpleCode1(0) \o SimpleCode1(0) \o SimpleCode1(0)

\* every code of one symbol but alpha, over { 0, 1 }
AlphaGroup ==
    SimpleCode1(6) \o SimpleCode1(0) \o SimpleCode1(0) \o SimpleCode2(0, 1) \o SimpleCode1(0)

\* green over four symbols, red over two, dist over { 0, 1 }
LzGroup(green) ==
    NormalCode(green) \o SimpleCode2(0, 1) \o SimpleCode1(0) \o SimpleCode1(0)
    \o SimpleCode2(0, 1)

\* green over four symbols, the other colors trivial (the 8-bit alpha shape)
Lz8bGroup(green) ==
    NormalCode(green) \o SimpleCode1(0) \o SimpleCode1(0) \o SimpleCode1(0) \o SimpleCode2(0, 1)

\* the green alphabets: literal 2, length 1, lengths 9..12, cache key 0 /
\* literals 2 and 9, length 1, lengths 17..24
GreenCache == << 2, 256, 262, 280 >>
GreenLong == << 2, 9, 256, 264 >>

\* a sub-stream (no color cache) whose pixels take no unit / one unit each
TrivialSub(green) == << 0 >> \o TrivialGroup(green)
Lits2Sub(units) == << 0 >> \o Lits2Group \o units

\* one transform: the "present" bit, its kind and its body
Transform(type, body) == << 1, type >> \o body

Predictor(sub) == Transform(PREDICTOR_TRANSFORM, << 0 >> \o sub)
CrossColor(sub) == Transform(CROSS_COLOR_TRANSFORM, << 0 >> \o sub)
SubtractGreen == Transform(SUBTRACT_GREEN, << >>)
ColorIndexing(num_colors) ==
    Transform(COLOR_INDEXING_TRANSFORM, << num_colors - 1 >> \o TrivialSub(7))

\* a level-0 stream body: transforms, color cache bits (-1: none), meta codes, groups
Level0(transforms, cache_bits, meta, groups, data) ==
    Flatten(transforms) \o << 0 >>
    \o (IF cache_bits < 0 THEN << 0 >> ELSE << 1, cache_bits >>)
    \o meta \o groups \o data

NoMeta == << 0 >>

\* two groups: precision 4, a 1 x 2 meta image whose pixels are groups 0 and 1
TwoGroupsMeta ==
    << 1, 2, 0 >> \o SimpleCode2(0, 1) \o SimpleCode1(0) \o SimpleCode1(0) \o SimpleCode1(0)
    \o SimpleCode1(0) \o << 0, 1 >>

\* two groups side by side: precision 2, a 2 x 1 meta image whose pixels are
\* groups 0 and 1
TwoTilesMeta ==
    << 1, 0, 0 >> \o SimpleCode2(0, 1) \o SimpleCode1(0) \o SimpleCode1(0) \o SimpleCode1(0)
    \o SimpleCode1(0) \o << 0, 1 >>

\* pixel tokens: what is read (u) and the pixels it adds when accepted (adv)
Lit(green, red) == [ u |-> << green, red >>, adv |-> 1 ]
Lit8b(green) == [ u |-> << green >>, adv |-> 1 ]
\* rank of the length symbol, its extra bits (<< >>: none), the dist unit
BackRef(rank, extra, dist, length) == [ u |-> << rank >> \o extra \o << dist >>, adv |-> length ]
CacheRef(rank) == [ u |-> << rank >>, adv |-> 1 ]

RECURSIVE Units(_)
Units(prog) == IF prog = << >> THEN << >> ELSE Head(prog).u \o Units(Tail(prog))

RECURSIVE Adv(_)
Adv(prog) == IF prog = << >> THEN 0 ELSE Head(prog).adv + Adv(Tail(prog))

\* the program, then literals until the raster of `total` pixels is full
Data(prog, total, wide) ==
    Units(prog) \o
    Flatten([ i \in 1..Max(total - Adv(prog), 0) |->
                IF wide THEN << 0, i % 2 >> ELSE << i % 2 >> ])

RECURSIVE Lits(_)
Lits(n) == IF n <= 0 THEN << >> ELSE << Lit(0, n % 2) >> \o Lits(n - 1)

RECURSIVE Lits8b(_)
Lits8b(n) == IF n <= 0 THEN << >> ELSE << Lit8b(n % 2) >> \o Lits8b(n - 1)

\* pixel programs over GreenCache (ranks: literal 2, length 1, lengths 9.., cache)
BR1(dist) == BackRef(1, << >>, dist, 1)
BR9(extra, dist) == BackRef(2, << extra >>, dist, 9 + extra)
\* and over GreenLong (ranks: literals 2 and 9, length 1, lengths 17..)
BL1(dist) == BackRef(2, << >>, dist, 1)
BL17(extra, dist) == BackRef(3, << extra >>, dist, 17 + extra)

CachePrograms ==
    { << >>,
      << Lit(0, 1), Lit(0, 0), BR9(3, 1), CacheRef(3), BR1(0) >> \o Lits(3)
          \o << BR9(0, 0), CacheRef(3) >>,
      << BR1(1) >>,
      << Lit(0, 1), BR1(0) >>,
      << Lit(0, 1), BR1(1) >>,
      Lits(ImgWidth * ImgHeight - 6) \o << BR9(0, 1) >>,
      Lits(ImgWidth * ImgHeight - 9) \o << BR9(0, 1) >>,
      << Lit(0, 1), Lit(0, 0), BR9(3, 1), BR9(3, 0), BR9(0, 1) >>,
      Lits(SYNC_EVERY_N_ROWS * ImgWidth) \o << CacheRef(3), Lit(0, 0) >> }

LongPrograms ==
    { << Lit(0, 1), Lit(1, 0), BL17(7, 1) >>,
      Lits(7 * ImgWidth) \o << BL17(3, 0) >> }

Programs8b ==
    { << >>,
      << Lit8b(0), Lit8b(1), BL17(7, 1) >>,
      << Lit8b(0), Lit8b(1), Lit8b(1), BL17(0, 0), BL1(1) >>,
      << BL1(1) >>,
      << Lit8b(1), BL1(0) >>,
      Lits8b(ImgWidth * ImgHeight - 6) \o << BL17(0, 1) >> }

\* io->opaque: the output colorspace and the decoder options
NoOptions ==
    [ use_cropping |-> FALSE, crop_left |-> 0, crop_top |-> 0, crop_width |-> 0,
      crop_height |-> 0, use_scaling |-> FALSE, scaled_width |-> 0, scaled_height |-> 0 ]

Plain == [ colorspace |-> "MODE_BGRA", options |-> NoOptions ]

ParamsSet ==
    { [ colorspace |-> "MODE_YUV", options |-> NoOptions ],
      [ colorspace |-> "MODE_BGRA",
        options |-> [ NoOptions EXCEPT !.use_cropping = TRUE, !.crop_left = 1, !.crop_top = 1,
                                       !.crop_width = ImgWidth - 1,
                                       !.crop_height = ImgHeight - 3 ] ],
      [ colorspace |-> "MODE_BGRA",
        options |-> [ NoOptions EXCEPT !.use_cropping = TRUE, !.crop_width = ImgWidth,
                                       !.crop_height = NUM_ARGB_CACHE_ROWS ] ],
      [ colorspace |-> "MODE_RGBA",
        options |-> [ NoOptions EXCEPT !.use_scaling = TRUE, !.scaled_width = ImgWidth,
                                       !.scaled_height = ImgHeight \div 2 ] ],
      [ colorspace |-> "MODE_BGRA",
        options |-> [ NoOptions EXCEPT !.use_cropping = TRUE, !.crop_width = 0,
                                       !.crop_height = ImgHeight ] ],
      [ colorspace |-> "MODE_BGRA",
        options |-> [ NoOptions EXCEPT !.use_scaling = TRUE, !.scaled_width = ImgWidth ] ] }

\* the level-0 bodies that vary the header (the pixels take no unit)
TransformLists ==
    { << >>,
      << SubtractGreen >>,
      << Predictor(TrivialSub(1)) >>,
      << CrossColor(TrivialSub(1)) >>,
      << ColorIndexing(2) >>,
      << Predictor(TrivialSub(1)), CrossColor(TrivialSub(1)), SubtractGreen, ColorIndexing(17) >>,
      << SubtractGreen, SubtractGreen >>,
      << Predictor(TrivialSub(1)), Predictor(TrivialSub(1)) >>,
      << ColorIndexing(2), SubtractGreen, ColorIndexing(2) >>,
      << SubtractGreen, Predictor(TrivialSub(1)), CrossColor(TrivialSub(1)), ColorIndexing(17),
         SubtractGreen >>,
      << Predictor(Lits2Sub(<< 0, 1, 1, 0, 1, 0, 1 >>)) >>,
      << Predictor(<< 1, 12 >> \o TrivialGroup(1)) >>,
      << Predictor(<< 1, 1 >> \o TrivialGroup(1)) >> }

HeaderBodies ==
    { Level0(t, -1, NoMeta, TrivialGroup(4), << >>) : t \in TransformLists }
    \cup { Level0(<< >>, b, NoMeta, TrivialGroup(4), << >>) : b \in { 0, 1, 11, 12, 15 } }
    \cup { Level0(<< Predictor(TrivialSub(1)) >>, 12, NoMeta, TrivialGroup(4), << >>) }
    \cup { Level0(<< >>, -1, TwoGroupsMeta, TrivialGroup(4) \o TrivialGroup(6), << >>),
           Level0(<< >>, -1, NoMeta, Lits2Group, Data(<< >>, ImgWidth * ImgHeight, FALSE)) }

DataBodies ==
    { Level0(<< >>, 1, NoMeta, LzGroup(GreenCache), Data(prog, ImgWidth * ImgHeight, TRUE)) :
        prog \in CachePrograms }
    \cup { Level0(<< >>, -1, NoMeta, LzGroup(GreenLong), Data(prog, ImgWidth * ImgHeight, TRUE)) :
        prog \in LongPrograms }
    \cup { Level0(<< SubtractGreen >>, 1, TwoGroupsMeta, LzGroup(GreenCache) \o LzGroup(GreenCache),
                  Data(<< Lit(0, 1), Lit(0, 0), BR9(3, 1), CacheRef(3) >>,
                       ImgWidth * ImgHeight, TRUE)),
           \* a back-reference that ends at column 1 of row 16, in the second tile
           Level0(<< >>, 1, TwoGroupsMeta, LzGroup(GreenCache) \o LzGroup(GreenCache),
                  Data(Lits(NUM_ARGB_CACHE_ROWS * ImgWidth - 8) \o << BR9(0, 1) >>,
                       ImgWidth * ImgHeight, TRUE)) }

\* rows that cross from the first tile into the second: by literals, and by
\* a back-reference that ends inside the second tile
WideBodies ==
    { Level0(<< >>, 1, TwoTilesMeta, LzGroup(GreenCache) \o LzGroup(GreenCache),
             Data(prog, WideWidth * WideHeight, TRUE)) :
        prog \in { << >>, Lits(WideWidth + 2) \o << BR9(0, 1) >> } }

\* a back-reference of 18 pixels from row 15 on: it passes rows 16 and 32
TallBody ==
    Level0(<< >>, -1, NoMeta, LzGroup(GreenLong),
           Data(Lits(NUM_ARGB_CACHE_ROWS - 1) \o << BL17(1, 1) >>, TallHeight, TRUE))

OptionBody ==
    Level0(<< >>, 1, NoMeta, LzGroup(GreenCache),
           Data(<< Lit(0, 1), Lit(0, 0), BR9(3, 1), CacheRef(3), BR1(0) >>,
                ImgWidth * ImgHeight, TRUE))

AlphaBodies ==
    { Level0(<< ColorIndexing(17) >>, -1, NoMeta, Lz8bGroup(GreenLong),
             Data(prog, ImgWidth * ImgHeight, FALSE)) : prog \in Programs8b }
    \cup { Level0(<< ColorIndexing(2) >>, -1, NoMeta, Lz8bGroup(GreenLong),
                  Data(<< Lit8b(1), BL1(1) >>, VP8LSubSampleSize(ImgWidth, 3) * ImgHeight, FALSE)),
           Level0(<< >>, 1, NoMeta, LzGroup(GreenCache),
                  Data(<< Lit(0, 1), Lit(0, 0), BR9(3, 1), CacheRef(3), BR1(0) >>,
                       ImgWidth * ImgHeight, TRUE)),
           Level0(<< >>, 1, NoMeta, LzGroup(GreenCache),
                  Data(<< Lit(0, 1), BR1(0) >>, ImgWidth * ImgHeight, TRUE)),
           Level0(<< SubtractGreen >>, -1, NoMeta, Lits2Group,
                  Data(<< >>, ImgWidth * ImgHeight, FALSE)) }
    \* the color indexing transform with a color cache, with a red code of two
    \* symbols, beside another transform, and with two groups of which the
    \* second has an alpha code of two symbols (rows 16 and 17 belong to it)
    \cup { Level0(<< ColorIndexing(17) >>, 1, NoMeta, TrivialGroup(4), << >>),
           Level0(<< ColorIndexing(17) >>, -1, NoMeta, LzGroup(GreenLong),
                  Data(<< >>, ImgWidth * ImgHeight, TRUE)),
           Level0(<< SubtractGreen, ColorIndexing(17) >>, -1, NoMeta, TrivialGroup(4), << >>),
           Level0(<< ColorIndexing(17), SubtractGreen >>, -1, NoMeta, TrivialGroup(4), << >>),
           Level0(<< ColorIndexing(17) >>, -1, TwoGroupsMeta,
                  TrivialGroup(4) \o AlphaGroup,
                  Flatten([ i \in 1..(2 * ImgWidth) |-> << i % 2 >> ])),
           Level0(<< ColorIndexing(17) >>, -1, TwoGroupsMeta,
                  TrivialGroup(4) \o TrivialGroup(6), << >>),
           \* a back-reference that ends at column 1 of row 16, in the second tile
           Level0(<< ColorIndexing(17) >>, -1, TwoGroupsMeta,
                  Lz8bGroup(GreenLong) \o Lz8bGroup(GreenLong),
                  Data(Lits8b(NUM_ARGB_CACHE_ROWS * ImgWidth - 16) \o << BL17(0, 1) >>,
                       ImgWidth * ImgHeight, FALSE)) }

\* what is decoded: a VP8L picture (with its output parameters) or an alpha plane
Tests ==
    { [ kind |-> "image", V |-> Sig(ImgWidth, ImgHeight) \o body, params |-> Plain ] :
        body \in HeaderBodies \cup DataBodies }
    \cup { [ kind |-> "image", V |-> Sig(WideWidth, WideHeight) \o body, params |-> Plain ] :
        body \in WideBodies }
    \cup { [ kind |-> "image", V |-> Sig(1, TallHeight) \o TallBody, params |-> Plain ] }
    \cup { [ kind |-> "image", V |-> Sig(ImgWidth, ImgHeight) \o OptionBody, params |-> p ] :
        p \in ParamsSet }
    \cup { [ kind |-> "image", V |-> << 46 >>, params |-> Plain ],
           [ kind |-> "image", V |-> << 47, ImgWidth - 1, ImgHeight - 1, 0, 1 >>,
             params |-> Plain ] }
    \cup { [ kind |-> "alpha", V |-> body, params |-> Plain ] : body \in AlphaBodies }

----------------------------------------------------------------------------
(* The state: the stream V, the decoder, the ALPHDecoder, what the caller   *)
(* holds (kind, params, the bytes available so far) and the last call.      *)

\* no helper function was applied on its own
NoApplication == [ op |-> "none", done |-> FALSE, args |-> << >>, out |-> << >> ]

Init ==
    \E t \in Tests :
        /\ V = t.V
        /\ api = [ kind |-> t.kind, params |-> t.params, avail |-> 0 ]
        /\ dec = VP8LNew
        /\ alph = [ width_ |-> ImgWidth, height_ |-> ImgHeight, use_8b_decode |-> FALSE,
                    vp8l_dec_ |-> FALSE ]
        /\ call = [ op |-> "VP8LNew", ret |-> 1 ]
        /\ fn = NoApplication

\* VP8LBitReaderSetBuffer(br, buf, len) (utils/bit_reader)
VP8LBitReaderSetBuffer(br, len) ==
    [ br EXCEPT !.len = len, !.eos = br.eos \/ br.pos > len ]

\* the caller receives k more units (it stops at the first failed call, an
\* alpha plane is handed over once, and between two decoding calls the buffer
\* grows once); a picture decoder past its header is given the longer buffer
Feed(k) ==
    /\ api.avail < Len(V)
    /\ call.ret = 1
    /\ ~alph.vp8l_dec_
    /\ dec.state_ = "READ_DATA" => call.op = "VP8LDecodeImage"
    /\ api' = [ api EXCEPT !.avail = Min(api.avail + k, Len(V)) ]
    /\ dec' = IF api.kind = "image" /\ dec.state_ # "READ_DIM"
              THEN [ dec EXCEPT !.br_ = VP8LBitReaderSetBuffer(@, api'.avail) ]
              ELSE dec
    /\ call' = [ op |-> "Feed", ret |-> 1 ]
    /\ UNCHANGED << V, alph, fn >>

\* the caller switches to incremental decoding before the first decoding call
SetIncremental ==
    /\ api.kind = "image"
    /\ dec.state_ = "READ_HDR"
    /\ ~dec.incremental_
    /\ dec' = [ dec EXCEPT !.incremental_ = TRUE ]
    /\ call' = [ op |-> "SetIncremental", ret |-> 1 ]
    /\ UNCHANGED << V, alph, api, fn >>

\* allocation failures and a NULL io are explored on complete streams
DecodeHeader(io_set, fail_at) ==
    /\ api.kind = "image"
    /\ dec.state_ = "READ_DIM"
    /\ (fail_at # 0 \/ ~io_set) => api.avail = Len(V)
    /\ \E r \in { VP8LDecodeHeader(StartCall(dec, fail_at), io_set, api.avail) } :
           /\ dec' = EndCall(r.dec)
           /\ call' = [ op |-> "VP8LDecodeHeader", ret |-> r.ret ]
    /\ UNCHANGED << V, alph, api, fn >>

\* the states in which the owner of a picture decoder calls VP8LDecodeImage:
\* the header is read (READ_HDR) or the picture is being decoded (READ_DATA,
\* where the call goes straight to DecodeImageData)
PermitsDecoding(state) == state \in { "READ_HDR", "READ_DATA" }

DecodeImage(fail_at) ==
    /\ api.kind = "image"
    /\ PermitsDecoding(dec.state_)
    /\ dec.hdr_.huffman_tables_
    /\ dec.last_pixel_ < dec.width_ * dec.height_
    /\ dec.state_ = "READ_DATA" => fail_at = 0
    /\ fail_at # 0 => api.avail = Len(V)
    /\ \E r \in { VP8LDecodeImage(StartCall(dec, fail_at), api.params) } :
           /\ dec' = EndCall(r.dec)
           /\ call' = [ op |-> "VP8LDecodeImage", ret |-> r.ret ]
    /\ UNCHANGED << V, alph, api, fn >>

DecodeAlphaHeader(fail_at) ==
    /\ api.kind = "alpha"
    /\ ~alph.vp8l_dec_
    /\ fail_at # 0 => api.avail = Len(V)
    /\ \E r \in { VP8LDecodeAlphaHeader(alph, api.avail, fail_at) } :
           /\ dec' = EndCall(r.dec)
           /\ alph' = r.alph
           /\ call' = [ op |-> "VP8LDecodeAlphaHeader", ret |-> r.ret ]
    /\ UNCHANGED << V, api, fn >>

\* the owner of the alpha plane asks for rows up to last_row; it does not
\* re-enter a decoder that reported a bitstream error
DecodeAlphaImageStream(last_row) ==
    /\ api.kind = "alpha"
    /\ alph.vp8l_dec_
    /\ dec.status_ \in { "OK", "SUSPENDED" }
    /\ \E r \in { VP8LDecodeAlphaImageStream(alph, StartCall(dec, 0), last_row) } :
           /\ dec' = EndCall(r.dec)
           /\ call' = [ op |-> "VP8LDecodeAlphaImageStream", ret |-> r.ret ]
    /\ UNCHANGED << V, alph, api, fn >>

LastRows == { r \in 1..ImgHeight : r % AlphaStep = 0 \/ r = ImgHeight }

Next ==
    \/ \E k \in { 1, FeedStep, Len(V) } : Feed(k)
    \/ SetIncremental
    \/ \E io_set \in BOOLEAN, fail_at \in 0..MaxFailAt : DecodeHeader(io_set, fail_at)
    \/ \E fail_at \in 0..MaxFailAt : DecodeImage(fail_at)
    \/ \E fail_at \in 0..MaxFailAt : DecodeAlphaHeader(fail_at)
    \/ \E last_row \in LastRows : DecodeAlphaImageStream(last_row)

Spec == Init /\ [][Next]_vars

----------------------------------------------------------------------------
(* The helper functions on their own: the initial state holds the function  *)
(* and its arguments, the action applies it.                                *)

MaxCopy == 16

\* rasters of 32-bit pixels: all elements different, and a period of three
Rasters32b ==
    { [ i \in 1..MaxCopy |-> MakeARGB(255, 0, 0, i) ],
      [ i \in 1..MaxCopy |-> MakeARGB(255, 0, i % 3, 0) ] }

\* rasters of bytes: all elements different, and a period of three
Rasters8b == { [ i \in 1..MaxCopy |-> i ], [ i \in 1..MaxCopy |-> i % 3 ] }

\* the applications of CopyBlock32b and CopyBlock8b their call sites admit
CopyCalls ==
    { [ op |-> "CopyBlock32b", done |-> FALSE, out |-> << >>,
        args |-> [ data |-> data, pos |-> pos, dist |-> dist, length |-> length ] ] :
          data \in Rasters32b, pos \in 0..MaxCopy, dist \in 1..MaxCopy, length \in 1..MaxCopy }
    \cup
    { [ op |-> "CopyBlock8b", done |-> FALSE, out |-> << >>,
        args |-> [ data |-> data, pos |-> pos, dist |-> dist, length |-> length ] ] :
          data \in Rasters8b, pos \in 0..MaxCopy, dist \in 1..MaxCopy, length \in 1..MaxCopy }

\* tree groups: all colors trivial (two of them), a second green symbol, and
\* alpha, blue or red over two symbols
LiteralGroups ==
    { TrivialGroup(4),
      SimpleCode1(4) \o SimpleCode1(17) \o SimpleCode1(200) \o SimpleCode1(255) \o SimpleCode1(0),
      Lits2Group,
      AlphaGroup,
      SimpleCode1(0) \o SimpleCode1(0) \o SimpleCode2(0, 1) \o SimpleCode1(0) \o SimpleCode1(0),
      SimpleCode1(0) \o SimpleCode2(0, 1) \o SimpleCode1(0) \o SimpleCode1(0) \o SimpleCode1(0) }

GreenSymbols == { 0, 1, 4, NUM_LITERAL_CODES - 1 }

MaxTail == 3

\* one literal of green symbol code decoded at pixel src of a raster two
\* pixels wide, by a decoder that has read the group from the stream and has
\* tail more units to read
LiteralCalls ==
    { [ op |-> "DecodeLiteral", done |-> FALSE, out |-> << >>,
        args |-> [ stream |-> g \o u, avail |-> Min(Len(g) + tail, Len(g \o u)),
                   code |-> code, src |-> src ] ] :
          g \in LiteralGroups, u \in { << 1, 0, 1 >>, << 0, 1, 1 >> }, tail \in 0..MaxTail,
          code \in GreenSymbols, src \in 0..3 }

MaxColors == 4

PaletteEntries == { ZeroPixel, MakeARGB(0, 0, 128, 0), MakeARGB(255, 1, 255, 128) }

\* the palettes of up to MaxColors entries as the stream codes them
PaletteCalls ==
    { [ op |-> "ExpandColorMap", done |-> FALSE, out |-> << >>,
        args |-> [ num_colors |-> n, data |-> data ] ] :
          n \in 1..MaxColors, data \in [ 1..MaxColors -> PaletteEntries ] }

\* const int num_colors = VP8LReadBits(br, 8) + 1: at most 256
MaxNumColors == 256

\* one palette of every length the stream can declare
LongPaletteCalls ==
    { [ op |-> "ExpandColorMap", done |-> FALSE, out |-> << >>,
        args |-> [ num_colors |-> n,
                   data |-> [ i \in 1..n |-> MakeARGB(255, i, 7 * i, 1) ] ] ] :
          n \in 1..MaxNumColors }

MaxMetaWidth == 9
MaxMetaHeight == 5
\* const int huffman_precision = VP8LReadBits(br, 3) + 2: at most 9
MaxPrecision == 9
\* one lookup of the group of pixel (x, y) of a width x height picture: tiled
\* with any precision the stream can declare, or not tiled (bits 0); pixel i
\* of the meta-Huffman image holds group (i * step) % 3 in its green byte
MetaCalls(max_width, max_height) ==
    UNION { { [ op |-> "GetHtreeGroupForPos", done |-> FALSE, out |-> << >>,
                args |-> [ width |-> w, height |-> h, bits |-> b, step |-> step,
                           x |-> x, y |-> y ] ] :
                x \in 0..(w - 1), y \in 0..(h - 1) } :
            w \in 1..max_width, h \in 1..max_height,
            b \in { 0 } \cup 2..MaxPrecision, step \in { 1 } }
\* the code-length code of the tokens 0, 1, 2, 16, 17 and 18 (ranks 0..5)
TokenCode == [ x \in { 0, 1, 2, 16, 17, 18 } |-> 3 ]
TokenRank(token) == IF token < kCodeLengthLiterals THEN token ELSE token - 13
\* the tokens with their extra bits: every repeat count of 16, the least and
\* the largest of 17 and 18
Tokens ==
    { [ token |-> t, extra |-> 0 ] : t \in { 0, 1, 2 } }
    \cup { [ token |-> 16, extra |-> e ] : e \in 0..3 }
    \cup { [ token |-> 17, extra |-> e ] : e \in { 0, 7 } }
    \cup { [ token |-> 18, extra |-> e ] : e \in { 0, 127 } }
MaxTokens == 2
RECURSIVE TokenLists(_)
TokenLists(n) ==
    IF n = 0 THEN { << >> }
    ELSE TokenLists(n - 1) \cup { Append(l, t) : l \in TokenLists(n - 1), t \in Tokens }
\* literal lengths read before the tokens
TokenLeads ==
    { << >>, << [ token |-> 2, extra |-> 0 ] >>,
      << [ token |-> 1, extra |-> 0 ], [ token |-> 0, extra |-> 0 ] >> }
RECURSIVE TokenUnits(_)
TokenUnits(tokens) ==
    IF tokens = << >> THEN << >>
    ELSE (IF Head(tokens).token < kCodeLengthLiterals
          THEN << TokenRank(Head(tokens).token) >>
          ELSE << TokenRank(Head(tokens).token), Head(tokens).extra >>)
         \o TokenUnits(Tail(tokens))
\* a token stream for an alphabet of num_symbols symbols: max_symbol declared
\* (on 8 bits) or not (0), the tokens, then zero lengths up to the last symbol
CodeLengthCalls(max_tokens) ==
    UNION { { [ op |-> "ReadHuffmanCodeLengths", done |-> FALSE, out |-> << >>,
                args |-> [ num_symbols |-> n, max_symbol |-> m,
                           tokens |-> lead \o l
                                      \o [ i \in 1..n |-> [ token |-> 0, extra |-> 0 ] ],
                           stream |-> (IF m = 0 THEN << 0 >> ELSE << 1, 3, m - 2 >>)
                                      \o TokenUnits(lead \o l) \o [ i \in 1..n |-> 0 ] ] ] :
                lead \in TokenLeads, l \in TokenLists(max_tokens),
                m \in { 0, 2, n + 1 } } :
            n \in { NUM_DISTANCE_CODES, NUM_LITERAL_CODES } }
MaxDistWidth == 8
\* the widest picture the 14 bits of the header allow
MaxPictureWidth == 16384
\* the distance symbols whose codes reach the table (1..128): every value of
\* their extra bits
TableSymbols == 0..13
\* one distance symbol with its extra bits (present in the buffer or not) for a
\* picture of a given width; the symbols past the table take the least and
\* the largest value of their extra bits
DistanceCalls(max_width) ==
    UNION { { [ op |-> "GetCopyDistance", done |-> FALSE, out |-> << >>,
                args |-> [ distance_symbol |-> sym, extra |-> e, avail |-> avail,
                           width |-> w ] ] :
                e \in IF sym < 4 THEN { 0 }
                      ELSE IF sym \in TableSymbols THEN 0..(Pow2(Shr(sym - 2, 1)) - 1)
                      ELSE { 0, Pow2(Shr(sym - 2, 1)) - 1 },
                avail \in { 0, 1 },
                w \in 1..max_width \cup { MaxPictureWidth } } :
            sym \in 0..(NUM_DISTANCE_CODES - 1) }
HelperCalls(op) ==
    IF op = "GetHtreeGroupForPos" THEN MetaCalls(MaxMetaWidth, MaxMetaHeight)
    ELSE IF op = "ReadHuffmanCodeLengths" THEN CodeLengthCalls(MaxTokens)
    ELSE IF op = "GetCopyDistance" THEN DistanceCalls(MaxDistWidth)
    ELSE CopyCalls \cup LiteralCalls \cup PaletteCalls \cup LongPaletteCalls

HelperInit ==
    /\ \E op \in { "GetHtreeGroupForPos", "ReadHuffmanCodeLengths", "GetCopyDistance",
                    "others" } :
          fn \in HelperCalls(op)
    /\ V = IF fn.op \in { "DecodeLiteral", "ReadHuffmanCodeLengths" } THEN fn.args.stream
           ELSE IF fn.op = "GetCopyDistance" THEN << fn.args.extra >>
           ELSE << >>
    /\ api = [ kind |-> "none", params |-> Plain, avail |-> 0 ]
    /\ dec = VP8LNew
    /\ alph = [ width_ |-> ImgWidth, height_ |-> ImgHeight, use_8b_decode |-> FALSE,
                vp8l_dec_ |-> FALSE ]
    /\ call = [ op |-> "VP8LNew", ret |-> 1 ]

\* CopyBlock32b(data + pos, dist, length) as DecodeImageData calls it
ApplyCopyBlock32b ==
    /\ fn.op = "CopyBlock32b" /\ ~fn.done
    /\ CopyFits32b(fn.args.pos, fn.args.dist, Len(fn.args.data), fn.args.length)
    /\ fn' = [ fn EXCEPT !.done = TRUE,
                         !.out = CopyBlock32b(fn.args.data, fn.args.pos, fn.args.dist,
                                              fn.args.length) ]
    /\ UNCHANGED << V, dec, alph, api, call >>

\* CopyBlock8b(data + pos, dist, length) as DecodeAlphaData calls it
ApplyCopyBlock8b ==
    /\ fn.op = "CopyBlock8b" /\ ~fn.done
    /\ CopyFits8b(fn.args.pos, fn.args.dist, Len(fn.args.data), fn.args.length)
    /\ fn' = [ fn EXCEPT !.done = TRUE,
                         !.out = CopyBlock8b(fn.args.data, fn.args.pos, fn.args.dist,
                                             fn.args.length) ]
    /\ UNCHANGED << V, dec, alph, api, call >>

\* the group as ReadHuffmanCodes reads it, then the literal branch of
\* DecodeImageData as the group makes it run and as it runs with the three
\* ReadSymbol calls
ApplyDecodeLiteral ==
    /\ fn.op = "DecodeLiteral" /\ ~fn.done
    /\ \E r \in { ReadGroupCodes([ VP8LNew EXCEPT !.br_ = NewBitReader(fn.args.avail) ],
                                  0, 1, << >>, TRUE) } :
          /\ r.ok
          /\ \E s \in { [ dec |-> r.dec, data |-> NewRaster(4),
                          row |-> fn.args.src \div 2, col |-> fn.args.src % 2,
                          htree_group |-> 0, src |-> fn.args.src, last_cached |-> fn.args.src,
                          next_sync_row |-> Pow2(24), exit |-> "run" ] } :
                fn' = [ fn EXCEPT
                          !.done = TRUE,
                          !.out = [ group |-> r.group,
                                    before |-> s,
                                    taken |-> DecodeLiteral(s, r.group, fn.args.code, 2, "NULL"),
                                    general |-> DecodeLiteral(s, [ r.group EXCEPT
                                                                     !.is_trivial_literal = FALSE ],
                                                              fn.args.code, 2, "NULL") ] ]
    /\ UNCHANGED << V, dec, alph, api, call >>

\* ExpandColorMap(num_colors, transform) on the palette read from the stream,
\* and once more on the palette it produced
ApplyExpandColorMap ==
    /\ fn.op = "ExpandColorMap" /\ ~fn.done
    /\ \E t \in { [ type_ |-> COLOR_INDEXING_TRANSFORM,
                     bits_ |-> ColorIndexingBits(fn.args.num_colors),
                     xsize_ |-> ImgWidth, ysize_ |-> ImgHeight,
                     data_ |-> SubSeq(fn.args.data, 1, fn.args.num_colors) ] } :
          \E once \in { ExpandColorMap(VP8LNew, fn.args.num_colors, t) } :
              \E twice \in { ExpandColorMap(VP8LNew, fn.args.num_colors, once.transform) } :
                  /\ once.ok /\ twice.ok
                  /\ fn' = [ fn EXCEPT !.done = TRUE,
                                       !.out = [ bits |-> t.bits_,
                                                 once |-> once.transform.data_,
                                                 twice |-> twice.transform.data_ ] ]
    /\ UNCHANGED << V, dec, alph, api, call >>

\* a value no group has: what a read outside the meta-Huffman image finds
NotAGroup == 65536

\* the meta-Huffman image as ReadHuffmanCodes makes it, UpdateDecoder for the
\* picture, then GetHtreeGroupForPos(hdr, x, y).  The image lies in a memory
\* that goes on behind it (and holds nothing else when the picture is not
\* tiled); index is the same lookup in a memory whose word i holds i
ApplyGetHtreeGroupForPos ==
    /\ fn.op = "GetHtreeGroupForPos" /\ ~fn.done
    /\ \E a \in { fn.args } :
       \E huffman_pixs \in { IF a.bits = 0 THEN 0
                              ELSE VP8LSubSampleSize(a.width, a.bits)
                                   * VP8LSubSampleSize(a.height, a.bits) } :
       \E huffman_image \in { [ i \in 1..huffman_pixs |->
                                  GroupOfPixel(MakeARGB(255, 0, (i * a.step) % 3, 7)) ] } :
       \E num_htree_groups \in { IF a.bits = 0 THEN 1 ELSE MaxGroup(huffman_image, 1) + 1 } :
       \E behind \in { [ i \in 1..(a.width * a.height + 1) |-> NotAGroup ] } :
       \E d \in { UpdateDecoder([ VP8LNew EXCEPT
                                     !.hdr_.huffman_subsample_bits_ = a.bits,
                                     !.hdr_.huffman_image_ = huffman_image \o behind,
                                     !.hdr_.num_htree_groups_ = num_htree_groups ],
                                 a.width, a.height) } :
           fn' = [ fn EXCEPT
                     !.done = TRUE,
                     !.out = [ huffman_pixs |-> huffman_pixs,
                               num_htree_groups |-> num_htree_groups,
                               huffman_mask_ |-> d.hdr_.huffman_mask_,
                               group |-> GetHtreeGroupForPos(d.hdr_, a.x, a.y),
                               index |-> GetMetaIndex([ i \in 1..Len(huffman_image \o behind) |->
                                                          i - 1 ],
                                                      d.hdr_.huffman_xsize_, a.bits,
                                                      a.x, a.y) ] ]
    /\ UNCHANGED << V, dec, alph, api, call >>

\* ReadHuffmanCodeLengths(dec, code_length_code_lengths, num_symbols,
\* code_lengths) on a buffer ReadHuffmanCode has cleared
ApplyReadHuffmanCodeLengths ==
    /\ fn.op = "ReadHuffmanCodeLengths" /\ ~fn.done
    /\ \E r \in { ReadHuffmanCodeLengths([ VP8LNew EXCEPT !.br_ = NewBitReader(Len(V)) ],
                                          TokenCode, fn.args.num_symbols) } :
          fn' = [ fn EXCEPT !.done = TRUE,
                            !.out = [ ok |-> r.ok, status_ |-> r.dec.status_,
                                      code_lengths |-> r.code_lengths,
                                      writes |-> r.writes, eos |-> r.dec.br_.eos ] ]
    /\ UNCHANGED << V, dec, alph, api, call >>

\* dist_code = GetCopyDistance(dist_symbol, br);
\* dist = PlaneCodeToDistance(width, dist_code);
ApplyGetCopyDistance ==
    /\ fn.op = "GetCopyDistance" /\ ~fn.done
    /\ \E dist_code \in { GetCopyDistance(fn.args.distance_symbol,
                                           NewBitReader(fn.args.avail)) } :
          fn' = [ fn EXCEPT !.done = TRUE,
                            !.out = [ dist_code |-> dist_code.val,
                                      eos |-> dist_code.br.eos,
                                      dist |-> PlaneCodeToDistance(fn.args.width,
                                                                   dist_code.val) ] ]
    /\ UNCHANGED << V, dec, alph, api, call >>

HelperNext ==
    \/ ApplyGetHtreeGroupForPos
    \/ ApplyGetCopyDistance
    \/ ApplyReadHuffmanCodeLengths
    \/ ApplyCopyBlock32b
    \/ ApplyCopyBlock8b
    \/ ApplyDecodeLiteral
    \/ ApplyExpandColorMap

HelperSpec == HelperInit /\ [][HelperNext]_vars

----------------------------------------------------------------------------
(* Properties *)

\* the last public call was op
After(op) == call.op = op

\* the decode of the whole stream by one header call and one image call,
\* never suspended (incremental_ clear), with the caller's output parameters
OneShot ==
    Let([ h \in { VP8LDecodeHeader(StartCall(VP8LNew, 0), TRUE, Len(V)) } |->
        VP8LDecodeImage(StartCall(h.dec, 0), api.params) ])

\* C1: an incremental decode that completes, whatever prefixes it was fed and
\* however often it suspended, leaves the pixel raster and the emitted output
\* rows of the one-shot decode of the same stream.
C1_IncrementalEqualsOneShot ==
    (api.kind = "image" /\ dec.incremental_ /\ After("VP8LDecodeImage")
     /\ call.ret = 1 /\ dec.status_ = "OK")
    => /\ OneShot.ret = 1
       /\ OneShot.dec.status_ = "OK"
       /\ dec.pixels_ = OneShot.dec.pixels_
       /\ dec.out_rows = OneShot.dec.out_rows
       /\ dec.last_row_ = OneShot.dec.last_row_
       /\ dec.last_out_row_ = OneShot.dec.last_out_row_

\* an incremental decode completed by a call that resumed, with a color cache,
\* from a snapshot taken inside the picture
C1_Witness ==
    /\ api.kind = "image" /\ dec.incremental_ /\ After("VP8LDecodeImage")
    /\ call.ret = 1 /\ dec.status_ = "OK"
    /\ dec.start.status_ = "SUSPENDED"
    /\ dec.start.last_pixel_ > 0
    /\ dec.hdr_.color_cache_size_ > 0
    /\ Len(dec.blocks) > 1

\* the public calls that decode pixels
DecodingCalls == { "VP8LDecodeImage", "VP8LDecodeAlphaImageStream" }

\* the public calls that decode a header
HeaderCalls == { "VP8LDecodeHeader", "VP8LDecodeAlphaHeader" }

\* C2: whatever the decode path, a decoding call leaves last_row_ and
\* last_out_row_ at least where it found them, also when an earlier call on the
\* same decoder failed at the end of the stream.
C2_WatermarksNeverDecrease ==
    call.op \in DecodingCalls
    => /\ dec.last_row_ >= dec.start.last_row_
       /\ dec.last_out_row_ >= dec.start.last_out_row_

\* C3: the row blocks VP8LDecodeImage hands to the output are non-empty, each
\* starts where the one before ended (the first at row 0), and the k-th output
\* row is made from source row crop_top + k: rows come out in increasing order
\* and none twice, however the decode was suspended and resumed.
C3_RowBlocksIncrease ==
    api.kind = "image"
    => /\ \A k \in 1..Len(dec.blocks) :
            /\ dec.blocks[k][2] > dec.blocks[k][1]
            /\ dec.blocks[k][1] = IF k = 1 THEN 0 ELSE dec.blocks[k - 1][2]
       /\ dec.blocks # << >> => dec.last_row_ = dec.blocks[Len(dec.blocks)][2]
       /\ \A k \in DOMAIN dec.out_rows : dec.out_rows[k].src_row = dec.io_.crop_top + k

\* a resumed call that started from a snapshot lying before rows already
\* emitted, and emitted further rows
C3_Witness ==
    /\ api.kind = "image" /\ dec.incremental_ /\ After("VP8LDecodeImage")
    /\ dec.start.status_ = "SUSPENDED"
    /\ dec.start.last_pixel_ < dec.width_ * dec.start.last_row_
    /\ dec.last_row_ > dec.start.last_row_
    /\ Len(dec.blocks) > 1

\* C4 as stated: after a VP8LDecodeImage call last_out_row_ is the picture
\* height exactly when the status is OK, and OK means every pixel is decoded.
C4_AllRowsIffOK ==
    (api.kind = "image" /\ After("VP8LDecodeImage"))
    => /\ (dec.last_out_row_ = dec.height_) <=> (dec.status_ = "OK")
       /\ dec.status_ = "OK" => dec.last_pixel_ = dec.width_ * dec.height_

\* C4 amended: after a VP8LDecodeImage call, OK means every pixel is decoded
\* and, without rescaling, last_out_row_ is the height of the crop window
\* (crop_bottom - crop_top); when neither cropping nor rescaling is asked for,
\* last_out_row_ is the picture height exactly when the status is OK.
C4_WindowRowsWhenOK ==
    (api.kind = "image" /\ After("VP8LDecodeImage"))
    => /\ dec.status_ = "OK"
          => /\ dec.last_pixel_ = dec.width_ * dec.height_
             /\ ~dec.io_.use_scaling
                => dec.last_out_row_ = dec.io_.crop_bottom - dec.io_.crop_top
       /\ (~api.params.options.use_cropping /\ ~api.params.options.use_scaling)
          => ((dec.last_out_row_ = dec.height_) <=> (dec.status_ = "OK"))

\* a cropped decode that completed with fewer output rows than the picture has
C4_Witness ==
    /\ api.kind = "image" /\ After("VP8LDecodeImage")
    /\ dec.status_ = "OK"
    /\ api.params.options.use_cropping
    /\ dec.last_out_row_ = dec.io_.crop_bottom - dec.io_.crop_top
    /\ dec.last_out_row_ < dec.height_

\* C5: in incremental mode, when the end of the stream stops VP8LDecodeImage
\* before the raster is complete, the call returns with status SUSPENDED, the
\* bit reader, last_pixel_ and the color cache are those of the last SaveState,
\* and last_row_, last_out_row_ and the emitted rows are as they were when the
\* end of the stream was met.
C5_SuspendRestoresSnapshot ==
    (api.kind = "image" /\ After("VP8LDecodeImage") /\ dec.incremental_ /\ dec.eos_seen.hit)
    => /\ dec.status_ = "SUSPENDED"
       /\ call.ret = 1
       /\ dec.br_ = dec.saved_br_
       /\ dec.last_pixel_ = dec.saved_last_pixel_
       /\ dec.hdr_.color_cache_size_ > 0
          => dec.hdr_.color_cache_.colors_ = dec.hdr_.saved_color_cache_.colors_
       /\ dec.last_row_ = dec.eos_seen.last_row_
       /\ dec.last_out_row_ = dec.eos_seen.last_out_row_
       /\ dec.out_rows = dec.eos_seen.out_rows
       /\ dec.blocks = dec.eos_seen.blocks

\* a suspension inside the picture, after rows were emitted, with a color cache
C5_Witness ==
    /\ api.kind = "image" /\ After("VP8LDecodeImage") /\ dec.incremental_
    /\ dec.eos_seen.hit
    /\ dec.status_ = "SUSPENDED"
    /\ dec.saved_last_pixel_ > 0
    /\ dec.last_out_row_ > 0
    /\ dec.hdr_.color_cache_size_ > 0

\* C6: without incremental mode, the end of the stream met before the raster
\* is complete ends the call with status BITSTREAM_ERROR and a failure return,
\* on every path (picture, sub-streams, 32-bit alpha, 8-bit alpha).
C6_EosIsBitstreamError ==
    (call.op \in DecodingCalls \cup HeaderCalls /\ ~dec.incremental_ /\ dec.eos_seen.hit)
    => /\ dec.status_ = "BITSTREAM_ERROR"
       /\ call.ret = 0

\* C7: every back-reference that reaches the bounds test is accepted exactly
\* when dist <= pos and length <= width * height - pos; a rejected one writes
\* no pixel and fails the call with BITSTREAM_ERROR (DecodeImageData and
\* DecodeAlphaData alike).
C7_BackRefBounds ==
    \A k \in 1..Len(dec.backrefs) :
        LET n == dec.backrefs[k]
        IN  (n.path = "DecodeAlphaData" \/ ~n.eos)
            => /\ n.accepted <=> (n.dist <= n.pos /\ n.length <= n.end - n.pos)
               /\ ~n.accepted
                  => (dec.status_ = "BITSTREAM_ERROR" /\ call.ret = 0 /\ n.wrote = 0)

\* C8: kTableSize is only read at 0..MAX_CACHE_BITS; a color_cache_bits value
\* outside 1..MAX_CACHE_BITS fails the call with BITSTREAM_ERROR, and after it
\* is read no unit of the stream is consumed, no Huffman code is read and no
\* row is emitted.
C8_CacheBitsRange ==
    /\ dec.ktable \subseteq 0..MAX_CACHE_BITS
    /\ (call.op \in HeaderCalls /\ dec.bad_cc.hit)
       => /\ dec.status_ = "BITSTREAM_ERROR"
          /\ call.ret = 0
          /\ dec.ncodes = dec.bad_cc.ncodes
          /\ dec.br_.pos = dec.bad_cc.pos
          /\ dec.blocks = << >>
          /\ dec.out_rows = << >>

\* a header call that met an out-of-range color_cache_bits
C8_Witness ==
    /\ After("VP8LDecodeHeader")
    /\ dec.bad_cc.hit
    /\ call.ret = 0

\* C9: the transform stack never holds more than NUM_TRANSFORMS transforms nor
\* two of one kind, and a header that declares a kind a second time fails with
\* BITSTREAM_ERROR and leaves no transform stored.
C9_TransformsOnce ==
    /\ dec.next_transform_ <= NUM_TRANSFORMS
    /\ Len(dec.transforms_) = dec.next_transform_
    /\ \A i, j \in 1..Len(dec.transforms_) :
          i # j => dec.transforms_[i].type_ # dec.transforms_[j].type_
    /\ { dec.transforms_[i].type_ : i \in 1..Len(dec.transforms_) } = dec.transforms_seen_
    /\ (call.op \in HeaderCalls /\ dec.dup.hit)
       => /\ call.ret = 0
          /\ dec.status_ = "BITSTREAM_ERROR"
          /\ dec.dup.stored <= NUM_TRANSFORMS
          /\ dec.next_transform_ = 0

\* a header rejected at the second declaration of a kind, met with the stack full
C9_Witness ==
    /\ After("VP8LDecodeHeader")
    /\ dec.dup.hit
    /\ dec.dup.stored = NUM_TRANSFORMS
    /\ call.ret = 0

\* a header accepted with all four kinds stored
C9_FullStack ==
    /\ After("VP8LDecodeHeader")
    /\ call.ret = 1
    /\ dec.next_transform_ = NUM_TRANSFORMS

\* C10: when an allocation fails during a header or picture call, the call
\* fails and leaves status OUT_OF_MEMORY.
C10_AllocFailureIsOutOfMemory ==
    (call.op \in { "VP8LDecodeHeader", "VP8LDecodeImage" } /\ dec.oom)
    => /\ call.ret = 0
       /\ dec.status_ = "OUT_OF_MEMORY"

\* C11: a VP8LDecodeHeader or VP8LDecodeImage call that ends with a status
\* other than OK or SUSPENDED leaves state_ in a state that does not permit
\* decoding, so that no later VP8LDecodeImage call reaches the entropy loop
\* with the pixel buffer and the Huffman tables released.
C11_FailureIsTerminal ==
    (call.op \in { "VP8LDecodeHeader", "VP8LDecodeImage" }
     /\ dec.status_ \notin { "OK", "SUSPENDED" })
    => ~PermitsDecoding(dec.state_)

\* C12: when VP8LDecodeHeader or VP8LDecodeImage returns 0, status_ is not OK,
\* also when the function that failed innermost set no status (a transform
\* kind declared twice, a failed ExpandColorMap).
C12_FailureHasStatus ==
    (call.op \in { "VP8LDecodeHeader", "VP8LDecodeImage" } /\ call.ret = 0)
    => dec.status_ # "OK"

\* a header refused by ReadTransform at the second declaration of a kind
C12_Witness ==
    /\ After("VP8LDecodeHeader")
    /\ call.ret = 0
    /\ dec.dup.hit
    /\ dec.status_ = "BITSTREAM_ERROR"

\* C13: after a failing VP8LDecodeHeader (past the NULL io check) or a failing
\* VP8LDecodeImage the decoder owns no buffer: pixels_, rescaler_memory, the
\* data_ of every transform and the buffers of the metadata are freed and their
\* pointers cleared, next_transform_ and transforms_seen_ are 0; and on no path
\* is a buffer freed twice or a pointer to a live buffer overwritten.
C13_FailureReleasesAll ==
    /\ ~dec.heap.twice
    /\ ~dec.heap.lost
    /\ (/\ call.op \in { "VP8LDecodeHeader", "VP8LDecodeImage" }
        /\ call.ret = 0
        /\ ~(After("VP8LDecodeHeader") /\ dec.status_ = "INVALID_PARAM"))
       => /\ dec.heap.live = {}
          /\ dec.pixels_ = << >>
          /\ ~dec.rescaler_memory
          /\ dec.transforms_ = << >>
          /\ dec.hdr_ = InitMetadata
          /\ dec.next_transform_ = 0
          /\ dec.transforms_seen_ = {}

\* a VP8LDecodeImage call that failed in the pixel loop, after the pixel
\* buffer was allocated and with a color cache in the metadata
C13_Witness ==
    /\ After("VP8LDecodeImage")
    /\ call.ret = 0
    /\ dec.status_ = "BITSTREAM_ERROR"
    /\ dec.state_ = "READ_DATA"
    /\ dec.backrefs # << >>
    /\ dec.heap.live = {}
    /\ dec.pixels_ = << >>

\* a header that failed on an allocation after a transform was stored
C13_WitnessNested ==
    /\ After("VP8LDecodeHeader")
    /\ call.ret = 0
    /\ dec.oom
    /\ dec.transforms_seen_ = {}
    /\ dec.ncodes >= 5
    /\ dec.heap.live = {}

\* C14: state_ is READ_DIM after VP8LNew, READ_HDR after every successful
\* VP8LDecodeHeader and READ_DATA after every VP8LDecodeImage call that ends
\* OK or SUSPENDED; after any number of such calls the pixel buffer has been
\* allocated exactly once, and the rescaler (when the output is rescaled) and
\* the saved color cache (incremental decoding with a color cache) exactly
\* once, none of them before the first VP8LDecodeImage call.
C14_Lifecycle ==
    /\ After("VP8LNew") => dec.state_ = "READ_DIM"
    /\ (After("VP8LDecodeHeader") /\ call.ret = 1)
       => /\ dec.state_ = "READ_HDR"
          /\ dec.heap.made = NullHeap.made
    /\ (After("VP8LDecodeImage") /\ call.ret = 1)
       => /\ dec.status_ \in { "OK", "SUSPENDED" }
          /\ dec.state_ = "READ_DATA"
          /\ dec.heap.made.pixels_ = 1
          /\ dec.heap.made.rescaler_memory = IF dec.io_.use_scaling THEN 1 ELSE 0
          /\ dec.heap.made.saved_color_cache_ =
                IF dec.incremental_ /\ dec.hdr_.color_cache_size_ > 0 THEN 1 ELSE 0

\* a VP8LDecodeImage call that resumed a suspended decode (so not the first
\* call) of a picture with a color cache
C14_Witness ==
    /\ After("VP8LDecodeImage")
    /\ call.ret = 1
    /\ dec.start.status_ = "SUSPENDED"
    /\ dec.heap.made.pixels_ = 1
    /\ dec.heap.made.saved_color_cache_ = 1

\* a rescaled picture decoded
C14_WitnessRescaled ==
    /\ After("VP8LDecodeImage")
    /\ call.ret = 1
    /\ dec.heap.made.rescaler_memory = 1

\* the codes of red, blue and alpha have a single symbol in every group
TrivialColors(hdr) ==
    \A i \in DOMAIN hdr.htree_groups_ :
        \A c \in { RED, BLUE, ALPHA } : Len(hdr.htree_groups_[i].htrees[c].syms) = 1

\* C15: a successful VP8LDecodeAlphaHeader selects the 8-bit path, with one
\* byte per pixel allocated, exactly when the stream declared one transform,
\* that transform is COLOR_INDEXING, there is no color cache and the red, blue
\* and alpha codes of every group are trivial; otherwise it selects the 32-bit
\* path (a pixel buffer of 32-bit values with its scratch rows).
C15_Selects8bPath ==
    (After("VP8LDecodeAlphaHeader") /\ call.ret = 1)
    => /\ alph.use_8b_decode
          <=> /\ Len(dec.transforms_) = 1
              /\ dec.transforms_[1].type_ = COLOR_INDEXING_TRANSFORM
              /\ ~dec.hdr_.color_cache_.alloc
              /\ TrivialColors(dec.hdr_)
       /\ Len(dec.pixels_) = dec.width_ * dec.height_
       /\ alph.use_8b_decode
          => /\ \A i \in DOMAIN dec.pixels_ : dec.pixels_[i] = -1
             /\ ~dec.argb_cache_.alloc
       /\ ~alph.use_8b_decode
          => /\ \A i \in DOMAIN dec.pixels_ : dec.pixels_[i] = NoPixel
             /\ dec.argb_cache_.alloc

\* an alpha plane for which the 8-bit path is selected, with two groups
C15_Witness ==
    /\ After("VP8LDecodeAlphaHeader")
    /\ call.ret = 1
    /\ alph.use_8b_decode
    /\ dec.hdr_.num_htree_groups_ = 2

\* an alpha plane with only the color indexing transform and trivial colors
\* that is decoded on the 32-bit path because it has a color cache
C15_WitnessCache ==
    /\ After("VP8LDecodeAlphaHeader")
    /\ call.ret = 1
    /\ ~alph.use_8b_decode
    /\ Len(dec.transforms_) = 1
    /\ dec.transforms_[1].type_ = COLOR_INDEXING_TRANSFORM
    /\ TrivialColors(dec.hdr_)
    /\ dec.hdr_.color_cache_.alloc

\* an incremental VP8LDecodeImage call on the caller's plain parameters
\* (no cropping, no scaling)
PlainIncrementalImage ==
    /\ api.kind = "image" /\ dec.incremental_ /\ After("VP8LDecodeImage")
    /\ api.params = Plain

\* C16 as stated: an incremental VP8LDecodeImage call without cropping or
\* scaling that ends SUSPENDED leaves last_out_row_ a multiple of
\* NUM_ARGB_CACHE_ROWS that is at most the row of the restored snapshot, and a
\* later call that has the complete stream ends with last_out_row_ the height.
C16_SuspendedRowsWithinSnapshot ==
    /\ (PlainIncrementalImage /\ dec.status_ = "SUSPENDED")
          => /\ dec.last_out_row_ % NUM_ARGB_CACHE_ROWS = 0
             /\ dec.last_out_row_ <= dec.saved_last_pixel_ \div dec.width_
    /\ (PlainIncrementalImage /\ dec.start.status_ = "SUSPENDED"
        /\ api.avail = Len(V) /\ call.ret = 1)
          => dec.last_out_row_ = dec.height_

\* C16 (amended): an incremental VP8LDecodeImage call without cropping or
\* scaling that ends SUSPENDED leaves last_out_row_ a multiple of
\* NUM_ARGB_CACHE_ROWS (the restored snapshot may lie in a row before it), and
\* a later call that has the complete stream ends with last_out_row_ the height.
C16_SuspendedRowsInBlocks ==
    /\ (PlainIncrementalImage /\ dec.status_ = "SUSPENDED")
          => dec.last_out_row_ % NUM_ARGB_CACHE_ROWS = 0
    /\ (PlainIncrementalImage /\ dec.start.status_ = "SUSPENDED"
        /\ api.avail = Len(V) /\ call.ret = 1)
          => dec.last_out_row_ = dec.height_

\* a call suspended after a block of rows was emitted and a row was decoded
\* past it, the snapshot lying before the emitted rows
C16_Witness ==
    /\ PlainIncrementalImage /\ dec.status_ = "SUSPENDED"
    /\ dec.eos_seen.hit
    /\ dec.last_out_row_ = NUM_ARGB_CACHE_ROWS
    /\ dec.saved_last_pixel_ \div dec.width_ < dec.last_out_row_

\* a suspended decode completed by a later call that has the whole stream
C16_WitnessCompleted ==
    /\ PlainIncrementalImage /\ dec.start.status_ = "SUSPENDED"
    /\ dec.start.last_out_row_ = NUM_ARGB_CACHE_ROWS
    /\ api.avail = Len(V) /\ call.ret = 1
    /\ dec.last_out_row_ = dec.height_

\* C17: DecodeImageStream is never active more than two levels deep: the
\* outermost activation of a public call is the only one with is_level0 set,
\* every activation below it has is_level0 clear, and transforms and the
\* meta-Huffman image are read only by an activation with is_level0 set; every
\* activation has returned when the public call returns.
C17_RecursionDepth ==
    /\ dec.nest.deepest <= 2
    /\ dec.nest.depth = 0
    /\ \A st \in dec.nest.streams : st.is_level0 <=> (st.depth = 1)
    /\ \A rd \in dec.nest.reads :
          \A st \in dec.nest.streams : st.depth = rd.depth => st.is_level0

\* a header whose level-0 stream read a transform sub-stream and a
\* meta-Huffman image, each decoded one level down
C17_Witness ==
    /\ call.op \in HeaderCalls /\ call.ret = 1
    /\ dec.nest.deepest = 2
    /\ { rd.what : rd \in dec.nest.reads } = { "transform", "meta" }
    /\ \E t \in 1..dec.next_transform_ : dec.transforms_[t].data_ # << >>
    /\ dec.hdr_.huffman_image_ # << >>

\* the raster after a copy of length elements from dist elements back, element
\* i of the copy being the element at pos - dist + (i mod dist) before the copy
PeriodicCopy(data, pos, dist, length) ==
    [ k \in 1..Len(data) |->
        IF k > pos /\ k <= pos + length
        THEN data[pos - dist + ((k - pos - 1) % dist) + 1]
        ELSE data[k] ]

\* C18: CopyBlock32b and CopyBlock8b, at every distance, length and
\* destination alignment their call sites admit, leave at pos + i the element
\* that was at pos - dist + (i mod dist) before the copy, change nothing else,
\* and so give the result of the forward element-by-element loop.
C18_CopyIsPeriodic ==
    (fn.op \in { "CopyBlock32b", "CopyBlock8b" } /\ fn.done)
       => /\ fn.out = PeriodicCopy(fn.args.data, fn.args.pos, fn.args.dist, fn.args.length)
          /\ fn.out = CopyForward(fn.args.data, fn.args.pos - fn.args.dist, fn.args.pos,
                                  fn.args.length)

\* the 64-bit pattern path from an odd position with the two-pixel pattern, an
\* overlapping copy longer than its distance
C18_Witness ==
    /\ fn.op = "CopyBlock32b" /\ fn.done
    /\ fn.args.dist = 2 /\ fn.args.length >= 5 /\ fn.args.pos % 2 = 1
    /\ fn.args.data[fn.args.pos - 1] # fn.args.data[fn.args.pos]
    /\ fn.out # fn.args.data

\* the 32-bit pattern path from a position that is not 4-byte aligned
C18_Witness8b ==
    /\ fn.op = "CopyBlock8b" /\ fn.done
    /\ fn.args.dist = 4 /\ fn.args.length >= 9 /\ fn.args.pos % 4 = 3
    /\ fn.out # fn.args.data

\* C19: is_trivial_literal is set exactly when the red, blue and alpha tables
\* of the group have bits == 0 in their first entry, and then a literal of
\* green symbol S is the pixel made of the three single symbols and S, with the
\* bit reader where it was: the pixel, reader and positions the three
\* ReadSymbol calls of the general path produce.
C19_TrivialLiteral ==
    (fn.op = "DecodeLiteral" /\ fn.done)
       => /\ fn.out.group.is_trivial_literal
               <=> \A j \in { RED, BLUE, ALPHA } : TableBits0(fn.out.group.htrees[j]) = 0
          /\ fn.out.group.is_trivial_literal
               => /\ fn.out.taken = fn.out.general
                  /\ fn.out.taken.data[fn.args.src + 1] =
                        MakeARGB(TableValue0(fn.out.group.htrees[ALPHA]),
                                 TableValue0(fn.out.group.htrees[RED]),
                                 fn.args.code,
                                 TableValue0(fn.out.group.htrees[BLUE]))
                  /\ fn.out.taken.dec.br_ = fn.out.before.dec.br_
                  /\ fn.out.taken.src = fn.args.src + 1

\* a literal decoded through a trivial group whose single symbols are not zero
C19_Witness ==
    /\ fn.op = "DecodeLiteral" /\ fn.done
    /\ fn.out.group.is_trivial_literal
    /\ fn.args.code = 4
    /\ fn.out.taken.data[fn.args.src + 1] = MakeARGB(255, 17, 4, 200)
    /\ fn.out.taken.row = 1 /\ fn.out.taken.col = 0

\* a literal decoded through a group that is not trivial, alpha read from the stream
C19_WitnessGeneral ==
    /\ fn.op = "DecodeLiteral" /\ fn.done
    /\ ~fn.out.group.is_trivial_literal
    /\ TableBits0(fn.out.group.htrees[ALPHA]) # 0
    /\ fn.out.taken.dec.br_.pos = fn.out.before.dec.br_.pos + 1
    /\ fn.out.taken.src = fn.args.src + 1

\* entries 0..num_colors-1 of the palette ExpandColorMap produced are what a
\* second ExpandColorMap leaves
SecondExpansionKeeps ==
    \A i \in 1..fn.args.num_colors : fn.out.twice[i] = fn.out.once[i]

\* C20 as stated: ExpandColorMap applied to a palette that ExpandColorMap
\* produced leaves entries 0..num_colors-1 unchanged.
C20_ExpandIsIdempotent ==
    (fn.op = "ExpandColorMap" /\ fn.done) => SecondExpansionKeeps

\* C20 (amended): ExpandColorMap applied to a palette that ExpandColorMap
\* produced leaves entry 0 unchanged, and leaves entries 0..num_colors-1
\* unchanged exactly when entries 0..num_colors-2 of that palette are zero in
\* every byte.
C20_ExpandKeepsFirstEntry ==
    (fn.op = "ExpandColorMap" /\ fn.done)
       => /\ fn.out.twice[1] = fn.out.once[1]
          /\ SecondExpansionKeeps
                <=> \A i \in 1..(fn.args.num_colors - 1) : fn.out.once[i] = ZeroPixel

\* a palette of three colors whose second expansion differs from the first
C20_Witness ==
    /\ fn.op = "ExpandColorMap" /\ fn.done
    /\ fn.args.num_colors = 3
    /\ fn.out.once # fn.args.data
    /\ fn.out.twice[1] = fn.out.once[1]
    /\ fn.out.twice[2] # fn.out.once[2]
    /\ fn.out.twice[3] # fn.out.once[3]

\* a palette whose colors but the last are zero: the second expansion keeps it
C20_WitnessKept ==
    /\ fn.op = "ExpandColorMap" /\ fn.done
    /\ fn.args.num_colors = 3
    /\ fn.out.once[3] # ZeroPixel
    /\ SecondExpansionKeeps

\* the sum of the bytes k of the coded palette entries lo..hi (1-based)
RECURSIVE SumOfRange(_, _, _, _)
SumOfRange(data, lo, hi, k) ==
    IF lo > hi THEN 0
    ELSE IF lo = hi THEN data[lo][k]
    ELSE SumOfRange(data, lo, (lo + hi) \div 2, k)
         + SumOfRange(data, (lo + hi) \div 2 + 1, hi, k)

\* byte k of the sum of the coded palette entries 0..i-1 (1-based: 1..i)
SumOfBytes(data, i, k) == SumOfRange(data, 1, i, k)

\* C21: the COLOR_INDEXING transform gets bits 0, 1, 2, 3 for num_colors above
\* 16, above 4, above 2 and at most 2; the expanded palette has exactly
\* 1 << (8 >> bits) entries, at least num_colors; entry i below num_colors is
\* the byte-wise sum modulo 256 of the coded entries 0..i, and every entry
\* from num_colors on is zero.
C21_PaletteSize ==
    (fn.op = "ExpandColorMap" /\ fn.done)
       => /\ fn.out.bits = (IF fn.args.num_colors > 16 THEN 0
                            ELSE IF fn.args.num_colors > 4 THEN 1
                            ELSE IF fn.args.num_colors > 2 THEN 2 ELSE 3)
          /\ Len(fn.out.once) = Pow2(8 \div Pow2(fn.out.bits))
          /\ fn.args.num_colors <= Len(fn.out.once)
          /\ \A i \in 1..Len(fn.out.once) :
                fn.out.once[i] =
                    IF i <= fn.args.num_colors
                    THEN [ k \in 1..4 |-> SumOfBytes(fn.args.data, i, k) % 256 ]
                    ELSE ZeroPixel

\* a palette of 17 colors, expanded to 256 entries with sums that wrapped
C21_Witness ==
    /\ fn.op = "ExpandColorMap" /\ fn.done
    /\ fn.args.num_colors = 17
    /\ fn.out.bits = 0
    /\ Len(fn.out.once) = 256
    /\ fn.out.once[17] # ZeroPixel /\ fn.out.once[18] = ZeroPixel
    /\ SumOfBytes(fn.args.data, 17, 3) > 256

\* C22: for the block of rows last handed to ApplyInverseTransforms, the calls
\* of VP8LInverseTransform are those of the stored transforms from index
\* next_transform_-1 down to 0, each once; the first reads the decoded rows, the
\* later ones read the scratch cache, all write the scratch cache, and the
\* scratch cache was filled with a copy of the decoded rows of the block.
C22_InverseOrder ==
    (dec.argb_cache_.end_row > dec.argb_cache_.start_row /\ dec.pixels_ # << >>)
       => /\ Len(dec.argb_cache_.steps) = dec.next_transform_
          /\ \A k \in 1..Len(dec.argb_cache_.steps) :
                /\ dec.argb_cache_.steps[k].n = dec.next_transform_ - k
                /\ dec.argb_cache_.steps[k].type_ =
                      dec.transforms_[dec.next_transform_ - k + 1].type_
                /\ dec.argb_cache_.steps[k].rows_in =
                      (IF k = 1 THEN "rows" ELSE "argb_cache_")
                /\ dec.argb_cache_.steps[k].rows_out = "argb_cache_"
          /\ dec.argb_cache_.rows =
                RowsOf(dec.pixels_, dec.width_, dec.argb_cache_.start_row,
                       dec.argb_cache_.end_row - dec.argb_cache_.start_row)

\* a block of a picture with several transforms of different kinds
C22_Witness ==
    /\ After("VP8LDecodeImage") /\ call.ret = 1
    /\ dec.next_transform_ >= 2
    /\ dec.transforms_[1].type_ # dec.transforms_[dec.next_transform_].type_
    /\ Len(dec.argb_cache_.steps) = dec.next_transform_
    /\ dec.argb_cache_.end_row > dec.argb_cache_.start_row

\* a block of a picture without transforms: the cache is the decoded rows
C22_WitnessNone ==
    /\ After("VP8LDecodeImage") /\ call.ret = 1
    /\ dec.next_transform_ = 0
    /\ dec.argb_cache_.end_row = dec.height_
    /\ dec.argb_cache_.rows # << >>

----------------------------------------------------------------------------
(* C23: the color cache when a green symbol is read.                        *)

\* the reads of a green symbol the color cache was observed at
CacheReads == dec.cc_obs.reads

\* C23 as stated: in DecodeImageData with a color cache, every pixel written
\* so far is in the color cache whenever the next green symbol is read
C23_CacheCurrentAtEveryRead ==
    \A r \in CacheReads : r.behind = 0

\* C23: in DecodeImageData with a color cache, when the next green symbol is
\* read every pixel written so far is in the color cache on entry, after a
\* back-reference and after a literal or cache reference that ended a row;
\* after a literal or cache reference inside a row the pixels not inserted
\* yet are pixels of the current row, at most col of them
C23_CacheCurrentAtRowEnds ==
    \A r \in CacheReads :
        /\ r.behind >= 0
        /\ r.after \in { "entry", "backref" } => r.behind = 0
        /\ r.col = 0 => r.behind = 0
        /\ r.behind <= r.col

\* a literal inside a row left pixels out of the cache, a back-reference
\* after it brought the cache up, and a literal ended a row
C23_Witness ==
    /\ \E r \in CacheReads : r.after = "literal" /\ r.behind > 0
    /\ \E r \in CacheReads : r.after = "backref" /\ r.col > 0
    /\ \E r \in CacheReads : r.after \in { "literal", "cache" } /\ r.col = 0

----------------------------------------------------------------------------
(* C24: the color cache where it is observed.                               *)

\* the decoder is suspended in the pixels of a stream with a color cache
SuspendedWithCache ==
    /\ dec.status_ = "SUSPENDED"
    /\ dec.hdr_.color_cache_size_ > 0
    /\ dec.pixels_ # << >>

\* C24: at every color-cache lookup and every SaveState the color cache is the
\* cache obtained by inserting, in raster order, every pixel at positions
\* [0, src), with last_cached == src; and the cache a suspended decoder
\* resumes with is the cache of the pixels at positions [0, last_pixel_)
C24_CacheInSync ==
    /\ dec.cc_obs.synced
    /\ SuspendedWithCache
         => dec.hdr_.color_cache_.colors_ =
              CacheOf(dec.hdr_.color_cache_.hash_bits_, dec.pixels_, dec.last_pixel_).colors_

\* a call looked the cache up after literals inside a row and saved it
C24_Witness ==
    /\ dec.cc_obs.lookups > 0
    /\ dec.cc_obs.saves > 0
    /\ \E r \in CacheReads : r.behind > 0

\* a decoder suspended past its first pixel with a color cache that is not empty
C24_WitnessSuspended ==
    /\ SuspendedWithCache
    /\ dec.last_pixel_ > 0
    /\ dec.hdr_.color_cache_.colors_ # << >>

\* a resumed call looked the restored cache up
C24_WitnessResumed ==
    /\ dec.start.status_ = "SUSPENDED"
    /\ dec.start.last_pixel_ > 0
    /\ dec.cc_obs.lookups > 0

----------------------------------------------------------------------------
(* C25: the group of a tile.  A pixel is << alpha, red, green, blue >>:     *)
(* bits 24..31, 16..23, 8..15 and 0..7 of the 32-bit value.                 *)

\* the largest of the values f gives for the pixels of a meta-Huffman image
LargestGroup(pixels, f(_)) ==
    CHOOSE m \in { f(pixels[i]) : i \in DOMAIN pixels } :
        \A i \in DOMAIN pixels : f(pixels[i]) <= m

\* the groups and their number follow from the pixels by f
GroupsAre(f(_)) ==
    dec.meta_obs.read =>
        /\ DOMAIN dec.meta_obs.image = DOMAIN dec.meta_obs.pixels
        /\ \A i \in DOMAIN dec.meta_obs.pixels :
               dec.meta_obs.image[i] = f(dec.meta_obs.pixels[i])
        /\ dec.meta_obs.num_htree_groups = LargestGroup(dec.meta_obs.pixels, f) + 1

\* C25 as stated: the group of a tile is the value of bits 16..31 (the alpha
\* and red bytes) of its meta-Huffman pixel, and num_htree_groups is the
\* largest such value plus 1
C25_GroupInTopBytes ==
    LET TopBytes(argb) == argb[1] * 256 + argb[2]
    IN  GroupsAre(TopBytes)

\* C25: the group of a tile is the value of bits 8..23 (the red and green
\* bytes) of its meta-Huffman pixel, num_htree_groups is the largest such
\* value over the sub-sampled image plus 1, and these are the image and the
\* number of groups the decoder keeps
C25_GroupInRedGreen ==
    LET RedGreen(argb) == argb[2] * 256 + argb[3]
    IN  /\ GroupsAre(RedGreen)
        /\ (dec.meta_obs.read /\ dec.hdr_.huffman_image_ # << >>)
             => /\ dec.hdr_.huffman_image_ = dec.meta_obs.image
                /\ dec.hdr_.num_htree_groups_ = dec.meta_obs.num_htree_groups

\* a meta-Huffman image of two tiles with different groups was read and kept
C25_Witness ==
    /\ dec.meta_obs.read
    /\ dec.hdr_.huffman_image_ = dec.meta_obs.image
    /\ dec.hdr_.num_htree_groups_ = 2
    /\ \E i, j \in DOMAIN dec.meta_obs.pixels :
           dec.meta_obs.pixels[i][3] # dec.meta_obs.pixels[j][3]

----------------------------------------------------------------------------
(* C26: the group in use when a symbol is read.                             *)

\* the reads of a green symbol the group in use was observed at
GroupReads == dec.grp_obs

\* C26: at every read of a green symbol in DecodeImageData and in
\* DecodeAlphaData (the other symbols of the pass are read with the same
\* group) the group in use is the one the meta-Huffman image assigns to the
\* tile that holds (col, row), whether the lookup was redone for this read
\* or not
C26_GroupOfCurrentTile ==
    \A r \in GroupReads : r.used = r.assigned

\* both loops read a symbol of the second tile right after a back-reference
\* that ended inside a row, without redoing the lookup at that read, and
\* DecodeImageData read one on entry of a resumed call
C26_Witness ==
    /\ \E r \in GroupReads :
           r.tiled /\ r.after = "backref" /\ ~r.looked_up /\ r.used = 1
    /\ \E r \in GroupReads : r.tiled /\ r.after = "literal" /\ r.used = 1
    /\ \E r \in GroupReads : r.tiled /\ r.used = 0

\* DecodeAlphaData read a symbol of the second tile right after a
\* back-reference that ended inside a row
C26_WitnessAlpha ==
    \E r \in GroupReads :
        r.path = "DecodeAlphaData" /\ r.tiled /\ r.after = "backref" /\ ~r.looked_up /\ r.used = 1

\* a resumed DecodeImageData read its first symbol in the second tile
C26_WitnessResumed ==
    \E r \in GroupReads :
        r.path = "DecodeImageData" /\ r.tiled /\ r.after = "entry" /\ r.resumed /\ r.used = 1

\* DecodeImageData entered the second of two tiles of a row: by a literal,
\* with the lookup redone at the read, and by a back-reference that ended
\* inside the tile
C26_WitnessAcross ==
    /\ \E r \in GroupReads :
           r.tiled /\ r.col > 0 /\ r.looked_up /\ r.after = "literal" /\ r.used = 1
    /\ \E r \in GroupReads :
           r.tiled /\ r.col > 0 /\ ~r.looked_up /\ r.after = "backref" /\ r.used = 1
           /\ r.row < NUM_ARGB_CACHE_ROWS

----------------------------------------------------------------------------
(* C27: the lookups in the meta-Huffman image.                              *)

\* C27: for every pixel (x, y) of a picture and every precision 2..9 the
\* index huffman_xsize_ * (y >> bits) + (x >> bits) is less than
\* VP8LSubSampleSize(width, bits) * VP8LSubSampleSize(height, bits) and the
\* value read is less than num_htree_groups_; when the picture is not tiled
\* (bits 0, mask ~0) nothing is read and the group is 0
C27_MetaLookupInBounds ==
    (fn.op = "GetHtreeGroupForPos" /\ fn.done) =>
        IF fn.args.bits = 0
        THEN /\ fn.out.huffman_mask_ = -1
             /\ fn.out.group = 0
             /\ fn.out.index = 0
        ELSE /\ fn.out.huffman_pixs = VP8LSubSampleSize(fn.args.width, fn.args.bits)
                                      * VP8LSubSampleSize(fn.args.height, fn.args.bits)
             /\ fn.out.index >= 0
             /\ fn.out.index < fn.out.huffman_pixs
             /\ fn.out.group >= 0
             /\ fn.out.group < fn.out.num_htree_groups

\* the last pixel of a picture of several tiles each way was looked up, in
\* the last tile, with three groups
C27_Witness ==
    /\ fn.op = "GetHtreeGroupForPos" /\ fn.done
    /\ fn.args.bits = 2
    /\ fn.args.x = fn.args.width - 1 /\ fn.args.y = fn.args.height - 1
    /\ fn.args.x >= 8 /\ fn.args.y >= 4
    /\ fn.out.index = fn.out.huffman_pixs - 1
    /\ fn.out.num_htree_groups = 3

\* a pixel of a picture that is not tiled was looked up
C27_WitnessNotTiled ==
    /\ fn.op = "GetHtreeGroupForPos" /\ fn.done
    /\ fn.args.bits = 0
    /\ fn.args.x > 0 /\ fn.args.y > 0

----------------------------------------------------------------------------
(* C28: the expansion of the code-length tokens.                            *)

\* the lengths one token stands for, as the format gives them, appended to
\* st.lens, which holds one length for each symbol so far; FALSE in ok when a
\* repeat passes num_symbols
ExpandToken(st, tokens, num_symbols) ==
    Let([ t \in { tokens[st.i] } |->
        Let([ count \in { IF t.token = 16 THEN 3 + t.extra
                          ELSE IF t.token = 17 THEN 3 + t.extra
                          ELSE IF t.token = 18 THEN 11 + t.extra
                          ELSE 1 } |->
        Let([ length \in { IF t.token = 16 THEN st.prev
                           ELSE IF t.token \in { 17, 18 } THEN 0
                           ELSE t.token } |->
        IF Len(st.lens) + count > num_symbols THEN [ st EXCEPT !.ok = FALSE ]
        ELSE [ st EXCEPT !.i = @ + 1, !.budget = @ - 1,
                         !.prev = IF t.token \in 1..15 THEN t.token ELSE @,
                         !.lens = @ \o [ k \in 1..count |-> length ] ] ]) ]) ])

\* at most n tokens expanded in order (the first half of them, then the rest)
RECURSIVE ExpandTokens(_, _, _, _)
ExpandTokens(st, tokens, num_symbols, n) ==
    IF n <= 0 \/ ~st.ok \/ Len(st.lens) >= num_symbols \/ st.budget = 0
       \/ st.i > Len(tokens)
    THEN st
    ELSE IF n = 1 THEN ExpandToken(st, tokens, num_symbols)
    ELSE Let([ half \in { ExpandTokens(st, tokens, num_symbols, n \div 2) } |->
             ExpandTokens(half, tokens, num_symbols, n - (n \div 2)) ])

\* what the format gives for the stream of an application
ExpectedLengths ==
    IF fn.args.max_symbol > fn.args.num_symbols
    THEN [ ok |-> FALSE, lens |-> << >> ]
    ELSE Let([ st \in { ExpandTokens([ ok |-> TRUE, lens |-> << >>, i |-> 1,
                                       budget |-> IF fn.args.max_symbol = 0
                                                  THEN fn.args.num_symbols
                                                  ELSE fn.args.max_symbol,
                                       prev |-> 8 ],
                                     fn.args.tokens, fn.args.num_symbols,
                                     Len(fn.args.tokens)) } |->
             [ ok |-> st.ok, lens |-> st.lens ] ])

\* C28: ReadHuffmanCodeLengths gives every symbol the length its token stands
\* for (16: the last non-zero literal length, 8 if there was none, 3..6 times;
\* 17: 3..10 zeros; 18: 11..138 zeros), leaves the symbols it did not reach at
\* 0, writes no code_lengths entry at or after num_symbols, and fails with
\* BITSTREAM_ERROR when a repeat would pass num_symbols or max_symbol is
\* greater than num_symbols
C28_CodeLengthsExpanded ==
    (fn.op = "ReadHuffmanCodeLengths" /\ fn.done) =>
        Let([ expected \in { ExpectedLengths } |->
            /\ fn.out.ok = expected.ok
            /\ ~fn.out.ok => fn.out.status_ = "BITSTREAM_ERROR"
            /\ \A k \in DOMAIN fn.out.writes :
                   /\ fn.out.writes[k].first >= 0
                   /\ fn.out.writes[k].first + fn.out.writes[k].count <= fn.args.num_symbols
            /\ fn.out.ok =>
                   \A x \in 0..(fn.args.num_symbols - 1) :
                       (IF x \in DOMAIN fn.out.code_lengths THEN fn.out.code_lengths[x] ELSE 0)
                       = (IF x < Len(expected.lens) THEN expected.lens[x + 1] ELSE 0) ])

\* 138 zeros of a token 18 were written, then the last literal length was
\* repeated 6 times by a token 16
C28_Witness ==
    /\ fn.op = "ReadHuffmanCodeLengths" /\ fn.done /\ fn.out.ok
    /\ \E k \in DOMAIN fn.out.writes :
           /\ fn.out.writes[k].count = 138
           /\ k < Len(fn.out.writes) /\ fn.out.writes[k + 1].count = 6
           /\ fn.out.code_lengths[fn.out.writes[k + 1].first + 5] \in { 1, 2 }

\* a token 16 with no literal before it repeated the length 8
C28_WitnessDefault ==
    /\ fn.op = "ReadHuffmanCodeLengths" /\ fn.done /\ fn.out.ok
    /\ 0 \in DOMAIN fn.out.code_lengths /\ fn.out.code_lengths[0] = 8

\* a repeat passed the last symbol; max_symbol was too large; max_symbol
\* stopped the loop before the last symbol
C28_WitnessRepeatFails ==
    /\ fn.op = "ReadHuffmanCodeLengths" /\ fn.done /\ ~fn.out.ok
    /\ fn.args.max_symbol <= fn.args.num_symbols
    /\ fn.out.writes # << >>

C28_WitnessMaxSymbolFails ==
    /\ fn.op = "ReadHuffmanCodeLengths" /\ fn.done /\ ~fn.out.ok
    /\ fn.args.max_symbol > fn.args.num_symbols

C28_WitnessStopped ==
    /\ fn.op = "ReadHuffmanCodeLengths" /\ fn.done /\ fn.out.ok
    /\ Len(fn.out.writes) = 2 /\ fn.args.max_symbol = 2
    /\ fn.out.writes[2].first + fn.out.writes[2].count < fn.args.num_symbols

----------------------------------------------------------------------------
(* C29: distance symbols, plane codes and distances.                        *)

\* C29: for every distance symbol 0..39, every value of its extra bits and
\* every width >= 1 the plane code of GetCopyDistance is at least 1, so that
\* plane_code - 1 indexes kCodeToPlane within 0..119 when the code is at most
\* 120; PlaneCodeToDistance returns yoffset * width + (8 - xcode), or 1 if
\* that is less, for the codes 1..120 and plane_code - 120 above; the
\* distance is at least 1
C29_DistanceAtLeastOne ==
    (fn.op = "GetCopyDistance" /\ fn.done) =>
        /\ fn.out.dist_code >= 1
        /\ fn.out.dist_code <= 120 => (fn.out.dist_code - 1) \in 0..(Len(kCodeToPlane) - 1)
        /\ fn.out.dist >= 1
        /\ fn.out.dist =
             IF fn.out.dist_code > 120 THEN fn.out.dist_code - 120
             ELSE LET entry == kCodeToPlane[(fn.out.dist_code - 1) + 1]
                      yoffset == entry \div 16
                      xcode == entry % 16
                      coded == yoffset * fn.args.width + (8 - xcode)
                  IN  IF coded < 1 THEN 1 ELSE coded

\* a code of the table whose coded distance is below 1 in a narrow picture
\* was brought up to 1
C29_Witness ==
    /\ fn.op = "GetCopyDistance" /\ fn.done
    /\ fn.out.dist_code \in 1..120
    /\ (kCodeToPlane[fn.out.dist_code] \div 16) * fn.args.width
         + 8 - (kCodeToPlane[fn.out.dist_code] % 16) < 1
    /\ fn.out.dist = 1

\* the last code of the table, and the first code above it
C29_WitnessLastCode ==
    /\ fn.op = "GetCopyDistance" /\ fn.done
    /\ fn.out.dist_code = 120
    /\ fn.out.dist > 1

C29_WitnessAboveTable ==
    /\ fn.op = "GetCopyDistance" /\ fn.done
    /\ fn.out.dist_code = 121
    /\ fn.out.dist = 1

\* the largest distance symbol with its largest extra bits, and with its
\* extra bits past the end of the buffer
C29_WitnessLargest ==
    /\ fn.op = "GetCopyDistance" /\ fn.done
    /\ fn.args.distance_symbol = 39
    /\ fn.out.dist_code = 3 * 262144 + 262143 + 1

C29_WitnessEos ==
    /\ fn.op = "GetCopyDistance" /\ fn.done
    /\ fn.args.distance_symbol = 39 /\ fn.out.eos
    /\ fn.out.dist_code = 3 * 262144 + 1

----------------------------------------------------------------------------
(* C30: the rows handed to the row-processing hook.                         *)

\* C30: every call of the row-processing hook that has rows to process
\* (ProcessRows, ExtractAlphaRows, and ExtractPalettedAlphaRows of the 8-bit
\* path) handles at most NUM_ARGB_CACHE_ROWS rows, row - last_row_ <= 16, and
\* the rows ApplyInverseTransforms copied into argb_cache_ fit its 16 rows
C30_AtMostCacheRows ==
    /\ \A k \in DOMAIN dec.blocks :
           dec.blocks[k][2] - dec.blocks[k][1] <= NUM_ARGB_CACHE_ROWS
    /\ dec.argb_cache_.end_row - dec.argb_cache_.start_row <= NUM_ARGB_CACHE_ROWS
    /\ dec.width_ > 0 =>
           Len(dec.argb_cache_.rows) <= NUM_ARGB_CACHE_ROWS * dec.width_

\* one back-reference passed rows 16 and 32 and the hook ran twice for it,
\* with 16 rows each time
C30_Witness ==
    /\ dec.width_ = 1
    /\ \E k \in DOMAIN dec.backrefs :
           /\ dec.backrefs[k].accepted
           /\ dec.backrefs[k].pos < NUM_ARGB_CACHE_ROWS
           /\ dec.backrefs[k].pos + dec.backrefs[k].length > 2 * NUM_ARGB_CACHE_ROWS
    /\ \E k \in DOMAIN dec.blocks : dec.blocks[k] = << 0, NUM_ARGB_CACHE_ROWS >>
    /\ \E k \in DOMAIN dec.blocks :
           dec.blocks[k] = << NUM_ARGB_CACHE_ROWS, 2 * NUM_ARGB_CACHE_ROWS >>

\* an alpha plane decoded in parts: the hook ran at row 16 for the rows left
\* since the previous part
C30_WitnessAlpha ==
    /\ api.kind = "alpha"
    /\ \E k \in DOMAIN dec.blocks :
           /\ dec.blocks[k][2] = NUM_ARGB_CACHE_ROWS
           /\ dec.blocks[k][1] > 0

\* a resumed call handed over a full block of 16 rows
C30_WitnessResumed ==
    /\ dec.start.status_ = "SUSPENDED"
    /\ dec.start.last_pixel_ > 0
    /\ \E k \in DOMAIN dec.blocks :
           dec.blocks[k][2] - dec.blocks[k][1] = NUM_ARGB_CACHE_ROWS

====
